---- MODULE Spec2Model ----
(***************************************************************************)
(* Model of the main loop of the embedded DHCP/TCP-IP node (src/main.c),   *)
(* of the identity and DHCP helpers of src/eth0.c it calls, and of the     *)
(* timer service declared in src/timer.h.                                  *)
(*                                                                         *)
(* One loop pass is a sequence of steps, one per top-level `if` block of   *)
(* the while(true) loop; pc names the block that runs next.  The 1 Hz      *)
(* tick interrupt (Tick) may fire between any two blocks.                  *)
(***************************************************************************)
EXTENDS Integers, Sequences, FiniteSets, TLC

\* ------------------------------------------------------------------------
\* Bounds of the model
\* ------------------------------------------------------------------------
MaxCmds == 1
MaxFrames == 3
MaxTicks == 3
MaxLeaseTicks == 16
MaxLanCmds == 2
MaxLanFrames == 1
MaxServiceFrames == 6
MaxOptions == 3
MaxOfferFrames == 2
\* the capacity of the console line; uart0.h, which defines it, is not among
\* the sources, and no step of getsUart0 depends on its value
MAX_CHARS == 3
MaxTimers == 6      \* slots of the timer service ("up to N callbacks")

\* ------------------------------------------------------------------------
\* Program constants
\* ------------------------------------------------------------------------
STATIC == 0
INIT == 1
SELECTING == 2
REQUESTING == 3
BOUND == 4
RENEWING == 5
REBINDING == 6

DiscoverPeriod == 15
RenewPeriod == 15
RebindPeriod == 15
SafeSeconds == 2
DeclineSeconds == 10

HW_ADD_LENGTH == 6
IP_ADD_LENGTH == 4

Zero4 == <<0, 0, 0, 0>>
Bcast4 == <<255, 255, 255, 255>>
Bcast6 == <<255, 255, 255, 255, 255, 255>>
macAddress == <<2, 3, 4, 5, 6, 136>>

\* ------------------------------------------------------------------------
\* 32-bit words of the persistent store, kept as <<high half, low half>>
\* ------------------------------------------------------------------------
\* ip |= ip0 << 24; ip |= ip1 << 16; ip |= ip2 << 8; ip |= ip3
Pack(a) == <<a[1] * 256 + a[2], a[3] * 256 + a[4]>>

\* the octets of the word taken from the low end
UnpackLowFirst(w) == <<w[2] % 256, w[2] \div 256, w[1] % 256, w[1] \div 256>>

\* (tmp & 0xff000000) >> 24, (tmp & 0x00ff0000) >> 16, ...
Unpack(w) == <<w[1] \div 256, w[1] % 256, w[2] \div 256, w[2] % 256>>

WordZero == <<0, 0>>
WordOne == <<0, 1>>

\* ------------------------------------------------------------------------
\* Console lines: a line is the sequence of its fields, a field the
\* sequence of its characters (uart0.c parseFields)
\* ------------------------------------------------------------------------
S_set == <<"s", "e", "t">>
S_dhcp == <<"d", "h", "c", "p">>
S_ifconfig == <<"i", "f", "c", "o", "n", "f", "i", "g">>
S_reboot == <<"r", "e", "b", "o", "o", "t">>
S_on == <<"o", "n">>
S_off == <<"o", "f", "f">>
S_release == <<"r", "e", "l", "e", "a", "s", "e">>
S_refresh == <<"r", "e", "f", "r", "e", "s", "h">>
S_ip == <<"i", "p">>
S_gw == <<"g", "w">>
S_dns == <<"d", "n", "s">>
S_sn == <<"s", "n">>

Digits == <<"0", "1", "2", "3", "4", "5", "6", "7", "8", "9">>
IsDigit(c) == \E i \in 1..10 : Digits[i] = c
DigitVal(c) == (CHOOSE i \in 1..10 : Digits[i] = c) - 1

\* res = res * 10 + str[i] - '0' over the characters of the field
RECURSIVE atoiFrom(_, _, _)
atoiFrom(str, i, res) ==
    IF i > Len(str) THEN res
    ELSE atoiFrom(str, i + 1, res * 10 + DigitVal(str[i]))
atoi(str) == atoiFrom(str, 1, 0)

\* while (*a) { if (*a != *b) return false; a++; b++; } return true;
\* b's terminating NUL differs from every character of a
mystrcmp(a, b) ==
    \A i \in 1..Len(a) : i <= Len(b) /\ a[i] = b[i]

fieldCount(line) == Len(line)

\* mystrcmp(first field, strCommand) && minArguments >= fieldCount - 1
isCommand(line, strCommand, minArguments) ==
    /\ mystrcmp(line[1], strCommand)
    /\ minArguments >= fieldCount(line) - 1

HasField(line, fieldNumber) == fieldNumber <= fieldCount(line)

\* the field as a number when its type is 'n' (first character a digit),
\* 0 otherwise; the callee takes uint8_t, so the value is cut to 8 bits
getFieldInteger(line, fieldNumber) ==
    IF HasField(line, fieldNumber) /\ IsDigit(line[fieldNumber][1])
    THEN atoi(line[fieldNumber])
    ELSE 0
Octet(n) == n % 256
LineAddr(line) ==
    <<Octet(getFieldInteger(line, 3)), Octet(getFieldInteger(line, 4)),
      Octet(getFieldInteger(line, 5)), Octet(getFieldInteger(line, 6))>>

\* the lines the operator may type
SetAddrText == <<<<"1", "9", "2">>, <<"1", "6", "8">>, <<"1">>, <<"5", "0">>>>
SetLine(f) == <<S_set, f>> \o SetAddrText
Lines ==
    {<<S_dhcp, S_on>>, <<S_dhcp, S_off>>, <<S_dhcp, S_release>>,
     <<S_dhcp, S_refresh>>, <<S_ifconfig>>, <<S_reboot>>}
    \cup {SetLine(f) : f \in {S_ip, S_gw, S_dns, S_sn}}

\* lines with fewer and with more arguments than the commands name, and
\* addresses with octets at both ends of the range
SetAddrTextWide == <<<<"2", "5", "5">>, <<"0">>, <<"1", "2", "8">>, <<"7">>>>
OddLines ==
    {<<S_set, S_ip, <<"1", "0">>, <<"1">>, <<"2">>>>,
     SetLine(S_ip) \o <<<<"9">>>>,
     <<S_dhcp>>,
     <<S_dhcp, S_on, S_on>>,
     <<S_set, S_ip>> \o SetAddrTextWide,
     <<S_set, S_dns>> \o SetAddrTextWide}
LanLines == Lines \cup OddLines

\* the lines of an operator who manages the DHCP client
OperatorLines ==
    {<<S_dhcp, S_on>>, <<S_dhcp, S_off>>, <<S_dhcp, S_release>>,
     <<S_dhcp, S_refresh>>, SetLine(S_ip)}

\* ------------------------------------------------------------------------
\* Timer service (timer.h): the table of registered callbacks
\* ------------------------------------------------------------------------
NoTimer == [fn |-> "none", ticks |-> 0, period |-> 0, reload |-> FALSE]
EmptyTable == [i \in 1..MaxTimers |-> NoTimer]

FreeSlots(tm) == {i \in 1..MaxTimers : tm[i].fn = "none"}
FirstFree(tm) == CHOOSE i \in FreeSlots(tm) : \A j \in FreeSlots(tm) : i <= j

StartTimer(tm, callback, seconds, periodic) ==
    IF FreeSlots(tm) = {} THEN tm
    ELSE [tm EXCEPT ![FirstFree(tm)] =
             [fn |-> callback, ticks |-> seconds, period |-> seconds,
              reload |-> periodic]]

startOneshotTimer(tm, callback, seconds) == StartTimer(tm, callback, seconds, FALSE)
startPeriodicTimer(tm, callback, seconds) == StartTimer(tm, callback, seconds, TRUE)

\* clears by callback identity
stopTimer(tm, callback) ==
    [i \in 1..MaxTimers |-> IF tm[i].fn = callback THEN NoTimer ELSE tm[i]]

stopAllTimers(tm) == EmptyTable

\* the callbacks whose remaining time reaches zero on this tick
Fired(tm) == {tm[i].fn : i \in {j \in 1..MaxTimers : tm[j].fn # "none" /\ tm[j].ticks <= 1}}

\* every active slot is decremented; at zero a periodic slot is reloaded and
\* a one-shot slot is freed
tickIsr(tm) ==
    [i \in 1..MaxTimers |->
        IF tm[i].fn = "none" THEN NoTimer
        ELSE IF tm[i].ticks > 1 THEN [tm[i] EXCEPT !.ticks = @ - 1]
        ELSE IF tm[i].reload THEN [tm[i] EXCEPT !.ticks = tm[i].period]
        ELSE NoTimer]

Armed(tm, callback) == \E i \in 1..MaxTimers : tm[i].fn = callback
ArmedSlots(tm) == {i \in 1..MaxTimers : tm[i].fn # "none"}
ArmedWith(tm, callback, seconds, periodic) ==
    \E i \in 1..MaxTimers :
        tm[i] = [fn |-> callback, ticks |-> seconds, period |-> seconds,
                 reload |-> periodic]

\* ------------------------------------------------------------------------
\* Octets, checksums and byte order (eth0.c)
\* ------------------------------------------------------------------------
\* for (i = 0; i < sizeInBytes; i++) { if (phase) sum += *pData << 8;
\*   else sum += *pData; phase = 1 - phase; pData++; }
\* data[from] is the octet pData points to at the call; the rounds of the
\* loop are taken in two runs of whole words
RECURSIVE etherSumWords(_, _, _, _)
etherSumWords(sum, data, from, sizeInBytes) ==
    IF sizeInBytes <= 0 THEN sum
    ELSE IF sizeInBytes = 1 THEN sum + data[from]
    ELSE IF sizeInBytes = 2 THEN sum + data[from] + data[from + 1] * 256
    ELSE etherSumWords(sum, data, from, 2 * ((sizeInBytes + 2) \div 4))
         + etherSumWords(0, data, from + 2 * ((sizeInBytes + 2) \div 4),
                         sizeInBytes - 2 * ((sizeInBytes + 2) \div 4))

\* while ((sum >> 16) > 0) sum = (sum & 0xFFFF) + (sum >> 16); return ~result;
RECURSIVE FoldCarries(_)
FoldCarries(sum) ==
    IF sum \div 65536 > 0 THEN FoldCarries((sum % 65536) + (sum \div 65536)) ELSE sum
getEtherChecksum(sum) == 65535 - FoldCarries(sum)

\* ((value & 0xFF00) >> 8) + ((value & 0x00FF) << 8)
htons(value) == (value \div 256) + (value % 256) * 256

\* a uint16_t field of a frame as the little-endian processor loads it, and
\* the octets a store of a uint16_t leaves
Load16(data, at) == data[at] + data[at + 1] * 256
Store16(data, at, value) ==
    [data EXCEPT ![at] = value % 256, ![at + 1] = value \div 256]

\* htols of a uint32_t counter stored to a frame: the four octets of the
\* value, most significant first
Octets32(n) ==
    <<(n \div 16777216) % 256, (n \div 65536) % 256, (n \div 256) % 256, n % 256>>
\* htols(htols(x) + 1) on the four octets of x, modulo 2^32
PlusOne32(o) ==
    IF o[4] < 255 THEN <<o[1], o[2], o[3], o[4] + 1>>
    ELSE IF o[3] < 255 THEN <<o[1], o[2], o[3] + 1, 0>>
    ELSE IF o[2] < 255 THEN <<o[1], o[2] + 1, 0, 0>>
    ELSE <<(o[1] + 1) % 256, 0, 0, 0>>

\* data with the octets at positions at .. at + Len(part) - 1 replaced
Overlay(data, at, part) ==
    [i \in 1..Len(data) |->
        IF i >= at /\ i < at + Len(part) THEN part[i - at + 1] ELSE data[i]]

\* ipFrame: the header length in octets, the total length, the addresses
IpHeaderOctets(h) == (h[1] % 16) * 4
IpLength(h) == htons(Load16(h, 3))
IpSource(h) == SubSeq(h, 13, 16)
IpDest(h) == SubSeq(h, 17, 20)
\* tmp = destIp[i]; destIp[i] = sourceIp[i]; sourceIp[i] = tmp
SwapIp(h) == Overlay(Overlay(h, 13, IpDest(h)), 17, IpSource(h))

\* the header is summed as one of five words: its options are left out
etherCalcIpChecksumOfFiveWords(h) ==
    Store16(h, 11,
        getEtherChecksum(etherSumWords(etherSumWords(0, h, 1, 10), h, 13, 8)))

\* sum = 0; etherSumWords(&ip->revSize, 10);
\* etherSumWords(ip->sourceIp, ((ip->revSize & 0xF) * 4) - 12);
\* ip->headerChecksum = getEtherChecksum();
etherCalcIpChecksum(h) ==
    Store16(h, 11,
        getEtherChecksum(
            etherSumWords(etherSumWords(0, h, 1, 10), h, 13, IpHeaderOctets(h) - 12)))

\* sum = 0; etherSumWords(&ip->revSize, (ip->revSize & 0xF) * 4);
\* ok = (getEtherChecksum() == 0)
IpHeaderVerifies(h) ==
    getEtherChecksum(etherSumWords(0, h, 1, IpHeaderOctets(h))) = 0

\* ------------------------------------------------------------------------
\* Frames
\* ------------------------------------------------------------------------
ETHERTYPE_IP == 2048
ETHERTYPE_ARP == 2054
PROTO_UDP == 17
PROTO_ICMP == 1
PROTO_TCP == 6
TTL == 64
LISTEN == 0
SYN_RECEIVED == 1
ESTABLISHED == 2
FINWAIT_1 == 3
CLOSED == 6
BROADCAST_FLAG == 32768

ServerMac == <<0, 17, 34, 51, 68, 85>>
ServerIp == <<10, 0, 0, 1>>
OtherMac == <<0, 17, 34, 51, 68, 86>>
OfferedIp == <<10, 0, 0, 42>>
LeaseOctets == {<<0, 0, 0, 0>>, <<0, 0, 0, 2>>, <<0, 0, 0, 4>>}
OfferLease == <<0, 0, 0, 4>>
\* the hardware address of another client: it differs from macAddress in the
\* first five octets and has the same last octet
OtherClient == <<0, 17, 34, 51, 68, 136>>

\* a DHCP message carried in a broadcast UDP datagram with valid checksums
DhcpRx(srcMac, dhcpOp, type, ch, l) ==
    [frameType |-> ETHERTYPE_IP, ipSumOk |-> TRUE, udpSumOk |-> TRUE,
     sourceAddress |-> srcMac, sourceIp |-> ServerIp, destIp |-> Bcast4,
     protocol |-> PROTO_UDP, op |-> dhcpOp, msgType |-> type, chaddr |-> ch,
     yiaddr |-> OfferedIp, opt51 |-> l, opt54 |-> ServerIp,
     opt1 |-> <<255, 255, 0, 0>>, opt3 |-> <<10, 0, 0, 1>>,
     opt6 |-> <<8, 8, 8, 8>>,
     arpOp |-> 0, arpSourceAddress |-> srcMac, arpSourceIp |-> Zero4,
     arpDestIp |-> Zero4,
     destAddress |-> Bcast6, ipHeader |-> <<>>, payload |-> <<>>, slack |-> <<>>,
     udpLength |-> 0, dhcpOptions |-> <<>>]

\* an option as it stands in an options field: number, length, value
Tlv(number, values) == <<number, Len(values)>> \o values

\* the options of an OFFER as two servers order them: the server identifier
\* and the lease time right after the message type, or at the end
ServerFirstOptions ==
    Tlv(53, <<2>>) \o Tlv(54, ServerIp) \o Tlv(51, OfferLease)
        \o Tlv(1, <<255, 255, 0, 0>>) \o Tlv(3, <<10, 0, 0, 1>>)
        \o Tlv(6, <<8, 8, 8, 8>>) \o <<255>>
ServerLastOptions ==
    Tlv(53, <<2>>) \o Tlv(1, <<255, 255, 0, 0>>) \o Tlv(3, <<10, 0, 0, 1>>)
        \o Tlv(6, <<8, 8, 8, 8>>) \o Tlv(51, OfferLease) \o Tlv(54, ServerIp)
        \o <<255>>

\* an OFFER to the node given with the octets of its options field opts; the
\* UDP length is 8 + 240 + the size of the options
OfferRx(opts) ==
    [DhcpRx(ServerMac, 2, 2, macAddress, OfferLease)
        EXCEPT !.udpLength = 248 + Len(opts), !.dhcpOptions = opts]

\* a frame that is neither ARP nor IPv4 (EtherType 0x86DD): no classifier of
\* the packet block accepts it
NonIpRx ==
    [frameType |-> 34525, ipSumOk |-> FALSE, udpSumOk |-> FALSE,
     sourceAddress |-> OtherMac, sourceIp |-> Zero4, destIp |-> Zero4,
     protocol |-> 0, op |-> 0, msgType |-> 0, chaddr |-> OtherMac,
     yiaddr |-> Zero4, opt51 |-> Zero4, opt54 |-> Zero4, opt1 |-> Zero4,
     opt3 |-> Zero4, opt6 |-> Zero4,
     arpOp |-> 0, arpSourceAddress |-> OtherMac, arpSourceIp |-> Zero4,
     arpDestIp |-> Zero4,
     destAddress |-> macAddress, ipHeader |-> <<>>, payload |-> <<>>, slack |-> <<>>,
     udpLength |-> 0, dhcpOptions |-> <<>>]

\* an IPv4 datagram of a protocol the node does not serve (IGMP), sent to ip
UnicastRx(ip) ==
    [NonIpRx EXCEPT !.frameType = ETHERTYPE_IP, !.ipSumOk = TRUE,
                    !.sourceIp = ServerIp, !.destIp = ip, !.protocol = 2]

\* an ARP packet (arpFrame) in an Ethernet frame sent by ethSrc
HostMac == <<0, 17, 34, 51, 68, 87>>
HostIp == <<10, 0, 0, 7>>
ArpRx(ethSrc, arpOperation, senderMac, senderIp, targetIp) ==
    [NonIpRx EXCEPT !.frameType = ETHERTYPE_ARP, !.sourceAddress = ethSrc,
                    !.arpOp = arpOperation, !.arpSourceAddress = senderMac,
                    !.arpSourceIp = senderIp, !.arpDestIp = targetIp]

\* the answer of a host that holds the address the node has announced
ArpReplyRx == ArpRx(HostMac, 2, HostMac, OfferedIp, OfferedIp)

\* an IPv4 datagram given octet by octet: header is the IP header with its
\* options, data the octets received after it, stale the octets that follow
\* the frame in the receive buffer (left there by earlier frames)
IpRx(srcMac, header, data, stale) ==
    [NonIpRx EXCEPT !.frameType = ETHERTYPE_IP, !.sourceAddress = srcMac,
                    !.sourceIp = IpSource(header), !.destIp = IpDest(header),
                    !.protocol = header[10], !.ipHeader = header,
                    !.payload = data, !.slack = stale]

\* the octets of the receive buffer from the end of the IP header on
Buffer(f) == f.payload \o f.slack

\* the IPv4 header a peer sends: ihl words, of which the words after the
\* fifth are no-operation options, with the checksum of the sender
PeerIp == <<192, 168, 1, 198>>
PeerIpHeader(ihl, length, proto, dst) ==
    LET h == <<64 + ihl, 0, length \div 256, length % 256, 0, 1, 0, 0, 64, proto,
               0, 0>> \o PeerIp \o dst \o [i \in 1..(4 * (ihl - 5)) |-> 1]
    IN  Store16(h, 11, getEtherChecksum(etherSumWords(0, h, 1, Len(h))))

\* the octets that follow a received frame in the buffer: a cleared buffer,
\* and the remains of an earlier, longer frame
ClearedBuffer == [i \in 1..40 |-> 0]
\* uint8_t data[MAX_PACKET_SIZE]: all the octets of a cleared buffer that
\* follow a frame of 45 octets (Ethernet and IP header, echo message)
MAX_PACKET_SIZE == 1522
RestOfBuffer == [i \in 1..(MAX_PACKET_SIZE - 45) |-> 0]
UsedBuffer == [i \in 1..40 |-> 1 + (i % 2)]

\* an ICMP echo request (type 8) with three octets of data; the total length
\* of the IP header states excess octets more than were sent
EchoMessage ==
    LET m == <<8, 0, 0, 0, 0, 7, 0, 1, 97, 98, 99>>
    IN  Store16(m, 3, getEtherChecksum(etherSumWords(0, m, 1, Len(m))))
EchoRx(ip, ihl, excess, stale) ==
    IpRx(HostMac, PeerIpHeader(ihl, 4 * ihl + Len(EchoMessage) + excess,
                               PROTO_ICMP, ip),
         EchoMessage, stale)

\* a UDP datagram from port 1024 to port 1024 carrying "on", with the
\* checksum of the sender or with the checksum field left zero
UdpRx(ip, ihl, summed) ==
    LET h == PeerIpHeader(ihl, 4 * ihl + 10, PROTO_UDP, ip)
        d == <<4, 0, 4, 0, 0, 10, 0, 0, 111, 110>>
    IN  IpRx(HostMac, h,
             IF summed
             THEN Store16(d, 7,
                      getEtherChecksum(
                          etherSumWords(
                              etherSumWords(0, h, 13, 8) + PROTO_UDP * 256 + 10 * 256,
                              d, 1, Len(d))))
             ELSE d,
             ClearedBuffer)

\* a TCP segment without options and without data from port 1024 to port 23
TcpRx(ip, sequenceNumber, ackNumber, flags) ==
    LET h == PeerIpHeader(5, 40, PROTO_TCP, ip)
        t == <<4, 0, 0, 23>> \o sequenceNumber \o ackNumber
                 \o <<80, flags, 16, 0, 0, 0, 0, 0>>
    IN  IpRx(HostMac, h,
             Store16(t, 17,
                 getEtherChecksum(
                     etherSumWords(
                         etherSumWords(0, h, 13, 8) + PROTO_TCP * 256 + 20 * 256,
                         t, 1, Len(t)))),
             ClearedBuffer)
TCP_FIN == 1
TCP_SYN == 2
TCP_PSH == 8
TCP_ACK == 16

\* the traffic of one DHCP server: an OFFER, a short and a long lease; and
\* the answer of a host to the gratuitous ARP
LongLease == <<0, 0, 0, 16>>
LeaseFrames ==
    {DhcpRx(ServerMac, 2, 2, macAddress, OfferLease),
     DhcpRx(ServerMac, 2, 5, macAddress, <<0, 0, 0, 2>>),
     DhcpRx(ServerMac, 2, 5, macAddress, LongLease),
     ArpReplyRx}

\* the ARP traffic of a LAN: requests for the address ip and for another one,
\* sent directly and relayed by another station, and a reply
ArpFrames(ip) ==
    {ArpRx(HostMac, 1, HostMac, HostIp, ip),
     ArpRx(OtherMac, 1, HostMac, HostIp, ip),
     ArpRx(HostMac, 1, HostMac, HostIp, ServerIp),
     ArpRx(HostMac, 2, HostMac, HostIp, ip)}

RxFrames(ip) ==
    {DhcpRx(ServerMac, 2, 2, macAddress, OfferLease)}
    \cup {DhcpRx(ServerMac, 2, 5, macAddress, l) : l \in LeaseOctets}
    \cup {DhcpRx(OtherMac, 1, 3, OtherMac, OfferLease), NonIpRx, UnicastRx(ip)}

\* ------------------------------------------------------------------------
\* State
\* ------------------------------------------------------------------------
VARIABLES
    pc,                 \* the block of the main loop that runs next
    state,              \* main(): DHCP state
    dhcpEnabled,        \* eth0.c global
    sendDhcp, renewLease, sendRenewRequest, sendRebindRequest, rebind,
    leaseEnd, safeToUseIp, dhcpRelease, transitionToInit,   \* main.c flags
    timers,             \* table of the timer service
    eeprom,             \* persistent slots 0..4
    ipAddress, tempIpAddress, ipSubnetMask, ipGwAddress, dnsAddress,
    serverIpAddress, serverMacAddress,                      \* eth0.c globals
    txLog,              \* frames handed to etherPutPacket in this loop pass
    invalidCmd,         \* "Invalid command" was printed for the last line
    nCmds, nFrames, nTicks,     \* lines, frames and ticks consumed so far
    ackedIn,            \* state in which an ACK was accepted since the state last changed (0: none)
    safeFired,          \* a safe-to-use one-shot armed by such an ACK has fired
    lineInPass,         \* the console line processed in this pass (<<>>: none)
    expiredInPass,      \* the lease-end block acted in this pass
    expiredPrevPass,    \* it acted in the previous pass, and no line was processed in that pass
    ackLease,           \* lease time of the ACK accepted in this pass (0: none)
    tickedInPass,       \* a tick has been taken in this pass
    rxFrame,            \* the frame dispatched in this pass (<<>>: none)
    lastSet,            \* per slot 1..4, the address the operator last set (<<>>: none)
    nullRead,           \* the string a read through a null char* yields in this build
    nullOctets,         \* the octets a read through a null uint8_t* yields in this build
    tcp_state,          \* main.c global
    currentIsn,         \* eth0.c global
    options,            \* an options field under construction, octets 0..255
    opSize,             \* the cursor the last putOption returned
    written,            \* the putOption calls made: <<cursor, number, count, returned>>
    wrapped,            \* a putOption call has stepped over octet 255
    scan,               \* a getOption call followed round by round
    uartLine            \* a getsUart0 call followed character by character

flagVars == <<sendDhcp, renewLease, sendRenewRequest, sendRebindRequest, rebind,
              leaseEnd, safeToUseIp, dhcpRelease, transitionToInit>>
idVars == <<ipAddress, tempIpAddress, ipSubnetMask, ipGwAddress, dnsAddress,
            serverIpAddress, serverMacAddress>>
passVars == <<lineInPass, expiredInPass, expiredPrevPass, ackLease, tickedInPass,
              rxFrame>>
ackVars == <<ackedIn, safeFired>>
storeGhost == <<lastSet, nullRead, nullOctets>>
tcpVars == <<tcp_state, currentIsn>>
optVars == <<options, opSize, written, wrapped>>
callVars == <<scan, uartLine>>
nodeVars == <<pc, state, dhcpEnabled, flagVars, timers, eeprom, idVars, txLog,
              invalidCmd, nCmds, nFrames, nTicks, ackVars, passVars, storeGhost,
              tcpVars>>
vars == <<nodeVars, optVars, callVars>>

\* ------------------------------------------------------------------------
\* Identity and persistent store (eth0.c)
\* ------------------------------------------------------------------------
Mem ==
    [ipAddress |-> ipAddress, ipGwAddress |-> ipGwAddress,
     dnsAddress |-> dnsAddress, ipSubnetMask |-> ipSubnetMask,
     dhcpEnabled |-> dhcpEnabled, eeprom |-> eeprom]

etherSetIpAddress(m, a) ==
    [m EXCEPT !.ipAddress = a, !.eeprom[1] = Pack(a)]
etherSetIpGatewayAddress(m, a) ==
    [m EXCEPT !.ipGwAddress = a, !.eeprom[2] = Pack(a)]
\* writes the gateway array and slot 3
etherSetDNSAddress(m, a) ==
    [m EXCEPT !.ipGwAddress = a, !.eeprom[3] = Pack(a)]
etherSetIpSubnetMask(m, a) ==
    [m EXCEPT !.ipSubnetMask = a, !.eeprom[4] = Pack(a)]

\* the identity is reloaded from the store, the IP address excepted
getDetailsFromEpromKeepingIp(m) ==
    [m EXCEPT !.ipGwAddress = Unpack(m.eeprom[2]),
              !.dnsAddress = Unpack(m.eeprom[3]),
              !.ipSubnetMask = Unpack(m.eeprom[4])]

getDetailsFromEprom(m) ==
    [m EXCEPT !.ipAddress = Unpack(m.eeprom[1]),
              !.ipGwAddress = Unpack(m.eeprom[2]),
              !.dnsAddress = Unpack(m.eeprom[3]),
              !.ipSubnetMask = Unpack(m.eeprom[4])]

\* an address that is left as it is
etherSetIpAddressToZeroesSkipped == ipAddress
\* the value etherSetIpAddressToZeroes leaves in ipAddress
etherSetIpAddressToZeroes == [i \in 1..IP_ADD_LENGTH |-> 0]

etherEnableDhcpMode(m) == [m EXCEPT !.dhcpEnabled = TRUE, !.eeprom[0] = WordOne]
etherDisableDhcpMode(m) == [m EXCEPT !.dhcpEnabled = FALSE, !.eeprom[0] = WordZero]

SetMem(m) ==
    /\ ipAddress' = m.ipAddress
    /\ ipGwAddress' = m.ipGwAddress
    /\ dnsAddress' = m.dnsAddress
    /\ ipSubnetMask' = m.ipSubnetMask
    /\ dhcpEnabled' = m.dhcpEnabled
    /\ eeprom' = m.eeprom

\* the identity in memory is what slots 1..4 hold
IdentityFromStore ==
    /\ ipAddress = Unpack(eeprom[1])
    /\ ipGwAddress = Unpack(eeprom[2])
    /\ dnsAddress = Unpack(eeprom[3])
    /\ ipSubnetMask = Unpack(eeprom[4])

\* ------------------------------------------------------------------------
\* Writing and reading DHCP options (eth0.c)
\* ------------------------------------------------------------------------
\* options[size++] = number; options[size++] = count;
\* for (i = 0; i < count; i++) options[size++] = va_arg(ap, uint8_t);
\* size is a uint8_t: the octet after 255 is octet 0, and a value octet
\* written there replaces what was written before
PutOctets(opts, size, number, count, values) ==
    [i \in 0..255 |->
        IF (i - size - 2) % 256 < count THEN values[((i - size - 2) % 256) + 1]
        ELSE IF i = size THEN number
        ELSE IF i = (size + 1) % 256 THEN count
        ELSE opts[i]]

\* the cursor returned leaves out the count octet
putOptionShortCursor(opts, size, number, count, values) ==
    [options |-> PutOctets(opts, size, number, count, values),
     size |-> (size + 1 + count) % 256]

\* the options field and the cursor putOption leaves; return size;
putOption(opts, size, number, count, values) ==
    [options |-> PutOctets(opts, size, number, count, values),
     size |-> (size + 2 + count) % 256]

\* what getOption returns: the index of the octet pointed to, or NULL
NULL == 0 - 1

\* while (i < size) { if (options[i] == number) return &options[i + 2];
\*                    else i += options[i + 1] + 2; } return NULL;
RECURSIVE getOptionFrom(_, _, _, _)
getOptionFrom(opts, number, size, i) ==
    IF i < size
    THEN IF opts[i] = number THEN i + 2
         ELSE getOptionFrom(opts, number, size, (i + opts[i + 1] + 2) % 256)
    ELSE NULL

getOption(opts, number, size) == getOptionFrom(opts, number, size, 0)

\* ------------------------------------------------------------------------
\* Classifiers (eth0.c)
\* ------------------------------------------------------------------------
\* ok = (ether->frameType == htons(0x0800)); if (ok) { the header sums to
\* zero }.  A frame given without its octets carries the outcome of the sum.
etherIsIp(f) ==
    /\ f.frameType = ETHERTYPE_IP
    /\ IF f.ipHeader = <<>> THEN f.ipSumOk ELSE IpHeaderVerifies(f.ipHeader)
etherIsIpUnicast(f) == \A i \in 1..IP_ADD_LENGTH : f.destIp[i] = ipAddress[i]
etherIsIpBroadcast(f) == \A i \in 1..IP_ADD_LENGTH : f.destIp[i] = 255
\* the sum over the pseudo-header and the udp->length octets of the datagram
UdpSum(h, b) ==
    etherSumWords(
        etherSumWords(etherSumWords(0, h, 13, 8) + PROTO_UDP * 256, b, 5, 2),
        b, 1, htons(Load16(b, 5)))

\* ok = (ip->protocol == 0x11); if (ok) ok = (getEtherChecksum() == 0);
etherIsUdp(f) ==
    /\ f.protocol = PROTO_UDP
    /\ IF f.ipHeader = <<>> THEN f.udpSumOk
       ELSE getEtherChecksum(UdpSum(f.ipHeader, Buffer(f))) = 0

\* return (ip->protocol == 0x01 & icmp->type == 8);
etherIsPingRequest(f) == f.protocol = PROTO_ICMP /\ Buffer(f)[1] = 8

\* htons(tcp->headerLength): data offset, reserved bits and flags
TcpWord(b) == htons(Load16(b, 13))
Bit(x, k) == (x \div (2 ^ k)) % 2 = 1
TcpSeq(b) == SubSeq(b, 5, 8)
TcpAck(b) == SubSeq(b, 9, 12)

\* tmp16 = htons(ip->length) - 20; sum += (tmp16 & 0xff) << 8;
\* etherSumWords(tcp, tmp16); ok = (getEtherChecksum() == 0);
etherIsTcp(f) ==
    /\ f.protocol = PROTO_TCP
    /\ LET tmp16 == (IpLength(f.ipHeader) - 20) % 65536
       IN  getEtherChecksum(
               etherSumWords(etherSumWords(0, f.ipHeader, 13, 8) + PROTO_TCP * 256
                                 + (tmp16 % 256) * 256,
                             Buffer(f), 1, tmp16)) = 0

etherIsTcpSYN(f) == Bit(TcpWord(Buffer(f)), 1)

\* the ACK flag alone decides
etherIsTcpAckWithAnyNumber(f) == Bit(TcpWord(Buffer(f)), 4)
\* ok = bit 4; return ok && htols(tcp->ackNumber) == currentIsn;
etherIsTcpAck(f) ==
    Bit(TcpWord(Buffer(f)), 4) /\ TcpAck(Buffer(f)) = Octets32(currentIsn)

etherIsTelnetData(f) ==
    /\ Bit(TcpWord(Buffer(f)), 3) /\ Bit(TcpWord(Buffer(f)), 4)
    /\ TcpAck(Buffer(f)) = Octets32(currentIsn)

etherIsTcpFINACK(f) ==
    /\ Bit(TcpWord(Buffer(f)), 4) /\ Bit(TcpWord(Buffer(f)), 0)
    /\ TcpAck(Buffer(f)) = Octets32(currentIsn)
isArpResponse(f) == FALSE

\* ok = frameType == 0x0806; while (ok & (i < 4)) ok = arp->destIp[i] == ipAddress[i];
\* if (ok) ok = arp->op == 1
etherIsArpRequest(f) ==
    /\ f.frameType = ETHERTYPE_ARP
    /\ \A i \in 1..IP_ADD_LENGTH : f.arpDestIp[i] = ipAddress[i]
    /\ f.arpOp = 1

\* for (i = 0; i < HW_ADD_LENGTH; i++) ok = dhcp->chaddr[i] == macAddress[i];
RECURSIVE ChaddrLoop(_, _, _)
ChaddrLoop(ch, i, ok) ==
    IF i > HW_ADD_LENGTH THEN ok
    ELSE ChaddrLoop(ch, i + 1, ch[i] = macAddress[i])
ChaddrOk(ch) == ChaddrLoop(ch, 1, TRUE)

\* uint16_t opSize = htons(udp->length - 248): udp->length is loaded as its
\* octets stand in the frame, and getOption takes the size as a uint8_t
OptionsScanSize(udpLength) == htons((htons(udpLength) - 248) % 65536) % 256

\* the receive buffer from dhcp->options on: the options of the frame and,
\* after them, a cleared buffer
OptionsField(f) ==
    [i \in 0..511 |-> IF i < Len(f.dhcpOptions) THEN f.dhcpOptions[i + 1] ELSE 0]

\* the count octets read through the pointer that
\* getOption(dhcp->options, number, opSize) returns, a null pointer included;
\* a frame given without its octets carries the value found
ReadOption(f, number, count, found) ==
    IF f.dhcpOptions = <<>> THEN found
    ELSE IF getOption(OptionsField(f), number, OptionsScanSize(f.udpLength)) = NULL
         THEN SubSeq(nullOctets, 1, count)
         ELSE [i \in 1..count |->
                  OptionsField(f)[getOption(OptionsField(f), number,
                                            OptionsScanSize(f.udpLength)) + i - 1]]

\* if (ok && dhcp->op == 2 && msgType[0] == 2)
isDhcpOffer(f) ==
    ChaddrOk(f.chaddr) /\ f.op = 2 /\ ReadOption(f, 53, 1, <<f.msgType>>)[1] = 2

\* the test of isDhcpAck, and the lease time it returns
IsAck(f) ==
    ChaddrOk(f.chaddr) /\ f.op = 2 /\ ReadOption(f, 53, 1, <<f.msgType>>)[1] = 5
LeaseOf(o) == ((o[1] * 256 + o[2]) * 256 + o[3]) * 256 + o[4]
isDhcpAck(f) == IF IsAck(f) THEN LeaseOf(ReadOption(f, 51, 4, f.opt51)) ELSE 0

\* ------------------------------------------------------------------------
\* Builders (eth0.c)
\* ------------------------------------------------------------------------
\* every message of the client is sent to the server learned last
UnicastAlways(packet_type) == packet_type >= 1
Unicast(packet_type) == packet_type = 5 \/ packet_type = 7

\* option 53: renew (5) and rebind (6) are sent as REQUEST (3)
DhcpMessageType(packet_type) ==
    IF packet_type = 5 \/ packet_type = 6 THEN 3 ELSE packet_type

\* opSize after the options 53, 55, 61, for a REQUEST 50, 51 and 54, and the
\* end option
DhcpOptionsSize(packet_type) == IF packet_type = 3 THEN 38 ELSE 20

\* ip->revSize = 0x45 ... ip->length = htons(20 + 8 + 240 + opSize); the
\* header checksum is calculated last
DhcpIpHeader(packet_type) ==
    etherCalcIpChecksum(
        Store16(<<69, 0, 0, 0, 0, 0, 0, 0, TTL, PROTO_UDP, 0, 0>>
                    \o (IF Unicast(packet_type) THEN ipAddress ELSE Zero4)
                    \o (IF Unicast(packet_type) THEN serverIpAddress ELSE Bcast4),
                3, htons(20 + 8 + 240 + DhcpOptionsSize(packet_type))))

\* the octets of the options field that are sent (udpSize = 240 + opSize):
\* putOption and the stores options[opSize++] = ... append 53, 55 and 61, for
\* a REQUEST 50 (dhcp->yiaddr), 51 and 54 (the octets t5..t8 and t1..t4 read
\* from the message in the buffer), then 255.  opSize stays below 39, so the
\* uint8_t cursor does not wrap.
DhcpOptions(packet_type, rx) ==
    Tlv(53, <<DhcpMessageType(packet_type)>>) \o Tlv(55, <<1, 2, 3, 6, 51>>)
        \o Tlv(61, <<1>> \o macAddress)
        \o (IF packet_type = 3
            THEN Tlv(50, rx.yiaddr) \o Tlv(51, ReadOption(rx, 51, 4, rx.opt51))
                     \o Tlv(54, ReadOption(rx, 54, 4, rx.opt54))
            ELSE <<>>)
        \o <<255>>

\* the frame etherSendDhcpPacket(packet, packet_type) hands to the driver;
\* rx is the frame in the buffer (read for packet_type 3 only)
etherSendDhcpPacket(packet_type, rx) ==
    [kind |-> "dhcp",
     destAddress |-> IF Unicast(packet_type) THEN serverMacAddress ELSE Bcast6,
     sourceAddress |-> macAddress,
     sourceIp |-> IF Unicast(packet_type) THEN ipAddress ELSE Zero4,
     destIp |-> IF Unicast(packet_type) THEN serverIpAddress ELSE Bcast4,
     op |-> 1,
     flags |-> IF Unicast(packet_type) THEN 0 ELSE BROADCAST_FLAG,
     ciaddr |-> IF packet_type > 4 THEN ipAddress ELSE Zero4,
     chaddr |-> macAddress,
     msgType |-> DhcpMessageType(packet_type),
     opt55 |-> <<1, 2, 3, 6, 51>>,
     opt61 |-> <<1>> \o macAddress,
     opt50 |-> IF packet_type = 3 THEN rx.yiaddr ELSE <<>>,
     opt51 |-> IF packet_type = 3 THEN ReadOption(rx, 51, 4, rx.opt51) ELSE <<>>,
     opt54 |-> IF packet_type = 3 THEN ReadOption(rx, 54, 4, rx.opt54) ELSE <<>>,
     options |-> DhcpOptions(packet_type, rx),
     ipHeader |-> DhcpIpHeader(packet_type)]

\* the buffer after etherSendDhcpPacket(data, 3), as isDhcpAck reads it
RequestInBuffer(rx) ==
    [rx EXCEPT !.sourceAddress = macAddress, !.sourceIp = Zero4,
               !.op = 1, !.msgType = 3, !.chaddr = macAddress,
               !.yiaddr = Zero4, !.dhcpOptions = <<>>]

\* the response addressed to the sender named in the ARP packet
etherSendArpResponseToArpSender(rx) ==
    [kind |-> "arp", destAddress |-> rx.arpSourceAddress, sourceAddress |-> macAddress,
     op |-> 2, arpSourceAddress |-> macAddress, arpSourceIp |-> rx.arpDestIp,
     arpDestAddress |-> rx.arpSourceAddress, arpDestIp |-> rx.arpSourceIp,
     size |-> 42]

\* the frame etherSendArpResponse hands to the driver for the request rx:
\* op = 2, the hardware addresses moved and set, the IP addresses swapped
etherSendArpResponse(rx) ==
    [kind |-> "arp", destAddress |-> rx.sourceAddress, sourceAddress |-> macAddress,
     op |-> 2, arpSourceAddress |-> macAddress, arpSourceIp |-> rx.arpDestIp,
     arpDestAddress |-> rx.arpSourceAddress, arpDestIp |-> rx.arpSourceIp,
     size |-> 42]

\* the frame handed to etherPutPacket(ether, size) once the buffer holds
\* header and, after it, the octets of buffer; the hardware addresses of the
\* received frame rx have been swapped
IpTx(name, rx, header, buffer, size) ==
    [kind |-> name, destAddress |-> rx.sourceAddress, sourceAddress |-> rx.destAddress,
     ipHeader |-> header, payload |-> SubSeq(buffer, 1, size - 14 - Len(header)),
     size |-> size]

\* icmp->type = 0; sum = 0; etherSumWords(&icmp->type, 2);
\* icmp_size = ntohs(ip->length); icmp_size -= 24;
\* etherSumWords(&icmp->id, icmp_size); icmp->check = getEtherChecksum();
\* etherPutPacket(ether, 14 + ntohs(ip->length));
etherSendPingResponse(rx) ==
    LET h == SwapIp(rx.ipHeader)
        b0 == [Buffer(rx) EXCEPT ![1] = 0]
        icmp_size == (IpLength(h) - 24) % 65536
        b1 == Store16(b0, 3,
                  getEtherChecksum(
                      etherSumWords(etherSumWords(0, b0, 1, 2), b0, 5, icmp_size)))
    IN  IpTx("icmp", rx, h, b1, 14 + IpLength(h))

\* "Received" and its terminator, the 9 octets main() passes
ReceivedText == <<82, 101, 99, 101, 105, 118, 101, 100, 0>>

etherSendUdpResponse(rx, udpData, udpSize) ==
    LET h == etherCalcIpChecksum(
                 Store16(SwapIp(rx.ipHeader), 3,
                         htons(IpHeaderOctets(rx.ipHeader) + 8 + udpSize)))
        b0 == Buffer(rx)
        \* udp->sourcePort = udp->destPort; udp->length = htons(8 + udpSize)
        b1 == Store16(Overlay(b0, 1, SubSeq(b0, 3, 4)), 5, htons(8 + udpSize))
        b2 == Overlay(b1, 9, SubSeq(udpData, 1, udpSize))
        sum == etherSumWords(
                   etherSumWords(
                       etherSumWords(etherSumWords(0, h, 13, 8) + PROTO_UDP * 256,
                                     b2, 5, 2),
                       b2, 1, 6),
                   b2, 9, udpSize)
        b3 == Store16(b2, 7, getEtherChecksum(sum))
    IN  IpTx("udp", rx, h, b3, 22 + IpHeaderOctets(h) + udpSize)

\* the ports swapped, ackNumber = htols(htols(sequenceNumber) + 1),
\* sequenceNumber = htols(currentIsn)
TcpTurnAround(b0) ==
    Overlay(
        Overlay(Overlay(Overlay(b0, 1, SubSeq(b0, 3, 4)), 3, SubSeq(b0, 1, 2)),
                9, PlusOne32(TcpSeq(b0))),
        5, Octets32(currentIsn))

\* tcp->checksum = 0; the sum over the pseudo-header with the length
\* lengthField, the tcpSize * 4 octets of the TCP header and dataSize octets
\* at &tcp->data
TcpChecksum(h, b, tcpSize, dataSize) ==
    LET b0 == Store16(b, 17, 0)
        sum == etherSumWords(
                   etherSumWords(
                       etherSumWords(0, h, 13, 8) + PROTO_TCP * 256
                           + ((tcpSize * 4 + dataSize) % 256) * 256,
                       b0, 1, tcpSize * 4),
                   b0, 21, dataSize)
    IN  Store16(b0, 17, getEtherChecksum(sum))

SetBit(x, k) == IF Bit(x, k) THEN x ELSE x + 2 ^ k
ClearBit(x, k) == IF Bit(x, k) THEN x - 2 ^ k ELSE x

\* the acknowledgement number repeats the sequence number received
etherSendTcpSynAckSameNumber(rx) ==
    LET h == etherCalcIpChecksum(SwapIp(rx.ipHeader))
        b1 == Overlay(TcpTurnAround(Buffer(rx)), 9, TcpSeq(Buffer(rx)))
        w == SetBit(TcpWord(b1), 4)
        tcpSize == w \div 4096
        b2 == TcpChecksum(h, Store16(b1, 13, htons(w)), tcpSize, 0)
    IN  IpTx("tcp", rx, h, b2, 14 + IpHeaderOctets(h) + tcpSize * 4)

\* the frame etherSendTcpSynAck hands to the driver (currentIsn++ is applied
\* by the caller of this operator)
etherSendTcpSynAck(rx) ==
    LET h == etherCalcIpChecksum(SwapIp(rx.ipHeader))
        b1 == TcpTurnAround(Buffer(rx))
        w == SetBit(TcpWord(b1), 4)
        tcpSize == w \div 4096
        b2 == TcpChecksum(h, Store16(b1, 13, htons(w)), tcpSize, 0)
    IN  IpTx("tcp", rx, h, b2, 14 + IpHeaderOctets(h) + tcpSize * 4)

\* "Hello", the 5 octets main() passes
HelloText == <<72, 101, 108, 108, 111>>

etherSendTelnetData(rx, telnetData, telnetSize) ==
    LET h == etherCalcIpChecksum(
                 Store16(SwapIp(rx.ipHeader), 3, htons(40 + telnetSize)))
        b1 == TcpTurnAround(Buffer(rx))
        tcpSize == TcpWord(b1) \div 4096
        b2 == Overlay(b1, 21, SubSeq(telnetData, 1, telnetSize))
        b3 == TcpChecksum(h, b2, tcpSize, telnetSize)
    IN  IpTx("tcp", rx, h, b3, 14 + IpHeaderOctets(h) + tcpSize * 4 + telnetSize)

\* both frames leave with the FIN flag as it was received
etherSendAckFinAckKeepingFin(rx) ==
    LET h == etherCalcIpChecksum(SwapIp(rx.ipHeader))
        b1 == TcpTurnAround(Buffer(rx))
        w1 == SetBit(TcpWord(b1), 4)
        tcpSize == w1 \div 4096
        size == 14 + IpHeaderOctets(h) + tcpSize * 4
        b2 == TcpChecksum(h, Store16(b1, 13, htons(w1)), tcpSize, 0)
        b3 == TcpChecksum(h, Store16(b2, 13, htons(SetBit(w1, 0))), tcpSize, 0)
    IN  <<IpTx("tcp", rx, h, b2, size), IpTx("tcp", rx, h, b3, size)>>

\* the two frames etherSendAckFinAck hands to the driver: the flags word with
\* ACK set and FIN shifted out, then the same buffer with FIN set again
etherSendAckFinAck(rx) ==
    LET h == etherCalcIpChecksum(SwapIp(rx.ipHeader))
        b1 == TcpTurnAround(Buffer(rx))
        w1 == ClearBit(SetBit(TcpWord(b1), 4), 0)
        tcpSize == w1 \div 4096
        size == 14 + IpHeaderOctets(h) + tcpSize * 4
        b2 == TcpChecksum(h, Store16(b1, 13, htons(w1)), tcpSize, 0)
        b3 == TcpChecksum(h, Store16(b2, 13, htons(SetBit(w1, 0))), tcpSize, 0)
    IN  <<IpTx("tcp", rx, h, b2, size), IpTx("tcp", rx, h, b3, size)>>

\* the last branch tests for FINWAIT_1: the ACK that answers the FIN|ACK of
\* the node closes the connection
TcpBranchClosingAfterFin(f) ==
    IF etherIsTcpSYN(f)
    THEN [tx |-> <<etherSendTcpSynAck(f)>>, tcp_state |-> SYN_RECEIVED,
          currentIsn |-> currentIsn + 1]
    ELSE IF etherIsTcpAck(f) /\ tcp_state = SYN_RECEIVED
    THEN [tx |-> <<>>, tcp_state |-> ESTABLISHED, currentIsn |-> currentIsn]
    ELSE IF etherIsTelnetData(f)
    THEN [tx |-> <<etherSendTelnetData(f, HelloText, 5)>>, tcp_state |-> tcp_state,
          currentIsn |-> currentIsn + 5]
    ELSE IF etherIsTcpFINACK(f)
    THEN [tx |-> etherSendAckFinAck(f), tcp_state |-> FINWAIT_1,
          currentIsn |-> currentIsn + 1]
    ELSE IF etherIsTcpAck(f) /\ tcp_state = FINWAIT_1
    THEN [tx |-> <<>>, tcp_state |-> CLOSED, currentIsn |-> currentIsn]
    ELSE [tx |-> <<>>, tcp_state |-> tcp_state, currentIsn |-> currentIsn]

\* if (SYN) ... else if (ACK && tcp_state == SYN_RECEIVED) ... else if
\* (Telnet data) ... else if (FIN ACK) ... else if (ACK && SYN_RECEIVED) ...
TcpBranch(f) ==
    IF etherIsTcpSYN(f)
    THEN [tx |-> <<etherSendTcpSynAck(f)>>, tcp_state |-> SYN_RECEIVED,
          currentIsn |-> currentIsn + 1]
    ELSE IF etherIsTcpAck(f) /\ tcp_state = SYN_RECEIVED
    THEN [tx |-> <<>>, tcp_state |-> ESTABLISHED, currentIsn |-> currentIsn]
    ELSE IF etherIsTelnetData(f)
    THEN [tx |-> <<etherSendTelnetData(f, HelloText, 5)>>, tcp_state |-> tcp_state,
          currentIsn |-> currentIsn + 5]
    ELSE IF etherIsTcpFINACK(f)
    THEN [tx |-> etherSendAckFinAck(f), tcp_state |-> FINWAIT_1,
          currentIsn |-> currentIsn + 1]
    ELSE IF etherIsTcpAck(f) /\ tcp_state = SYN_RECEIVED
    THEN [tx |-> <<>>, tcp_state |-> CLOSED, currentIsn |-> currentIsn]
    ELSE [tx |-> <<>>, tcp_state |-> tcp_state, currentIsn |-> currentIsn]

sendGratiousArp(ip) ==
    [kind |-> "arp", destAddress |-> Bcast6, sourceAddress |-> macAddress,
     op |-> 1, arpSourceIp |-> ip, arpDestIp |-> ip, size |-> 42]

\* the packet_type main() passes for each message
DiscoverType == 1
RequestType == 3
DeclineType == 4
RenewType == 4
RebindType == 5
ReleaseType == 7

\* ------------------------------------------------------------------------
\* Lease timers armed on an accepted ACK (main.c)
\* ------------------------------------------------------------------------
\* lease * 0.5 and lease * 0.875 converted to uint32_t
\* T1 at a quarter of the lease
T1SecondsQuarter(lease) == lease \div 4
T1Seconds(lease) == lease \div 2
T2Seconds(lease) == (lease * 7) \div 8

ArmLeaseTimers(tm, lease) ==
    startOneshotTimer(
        startOneshotTimer(
            startOneshotTimer(
                startOneshotTimer(stopAllTimers(tm), "startT1Timer", T1Seconds(lease)),
                "startT2Timer", T2Seconds(lease)),
            "leaseEndTimer", lease),
        "arpResponse", SafeSeconds)

\* ------------------------------------------------------------------------
\* Initial state and boot
\* ------------------------------------------------------------------------
StoredIdentity ==
    <<Pack(<<192, 168, 1, 199>>), Pack(<<192, 168, 1, 1>>),
      Pack(<<192, 168, 1, 2>>), Pack(<<255, 255, 254, 0>>)>>
InitialStores ==
    {[i \in 0..4 |-> IF i = 0 THEN w ELSE StoredIdentity[i]] : w \in {WordZero, WordOne}}

\* the values main.c and eth0.c give their variables at reset
RamReset ==
    /\ state' = 0
    /\ dhcpEnabled' = FALSE
    /\ sendDhcp' = FALSE /\ renewLease' = FALSE /\ sendRenewRequest' = FALSE
    /\ sendRebindRequest' = FALSE /\ rebind' = FALSE /\ leaseEnd' = FALSE
    /\ safeToUseIp' = FALSE /\ dhcpRelease' = FALSE /\ transitionToInit' = FALSE
    /\ timers' = EmptyTable
    /\ ipAddress' = Zero4 /\ tempIpAddress' = Zero4
    /\ ipSubnetMask' = <<255, 255, 255, 0>>
    /\ ipGwAddress' = Zero4 /\ dnsAddress' = Zero4
    /\ serverIpAddress' = Zero4
    /\ serverMacAddress' = <<0, 0, 0, 0, 0, 0>>
    /\ txLog' = <<>>
    /\ invalidCmd' = FALSE
    /\ ackedIn' = 0 /\ safeFired' = FALSE
    /\ lineInPass' = <<>> /\ expiredInPass' = FALSE /\ expiredPrevPass' = FALSE
    /\ ackLease' = 0 /\ tickedInPass' = FALSE /\ rxFrame' = <<>>
    /\ tcp_state' = LISTEN /\ currentIsn' = 0

\* no getOption call and no getsUart0 call is in progress
NoScan == [pc |-> "none", octets |-> <<>>, number |-> 0, size |-> 0, i |-> 0,
           before |-> NULL, result |-> NULL]
NoLine == [pc |-> "none", buffer |-> <<>>, charCount |-> 0, top |-> NULL,
           echo |-> <<>>]

InitFrom(stores, reads) ==
    /\ pc = "boot"
    /\ state = 0
    /\ dhcpEnabled = FALSE
    /\ sendDhcp = FALSE /\ renewLease = FALSE /\ sendRenewRequest = FALSE
    /\ sendRebindRequest = FALSE /\ rebind = FALSE /\ leaseEnd = FALSE
    /\ safeToUseIp = FALSE /\ dhcpRelease = FALSE /\ transitionToInit = FALSE
    /\ timers = EmptyTable
    /\ eeprom \in stores
    /\ ipAddress = Zero4 /\ tempIpAddress = Zero4
    /\ ipSubnetMask = <<255, 255, 255, 0>>
    /\ ipGwAddress = Zero4 /\ dnsAddress = Zero4
    /\ serverIpAddress = Zero4
    /\ serverMacAddress = <<0, 0, 0, 0, 0, 0>>
    /\ txLog = <<>>
    /\ invalidCmd = FALSE
    /\ nCmds = 0 /\ nFrames = 0 /\ nTicks = 0
    /\ ackedIn = 0 /\ safeFired = FALSE
    /\ lineInPass = <<>> /\ expiredInPass = FALSE /\ expiredPrevPass = FALSE
    /\ ackLease = 0 /\ tickedInPass = FALSE /\ rxFrame = <<>>
    /\ lastSet = [i \in 1..4 |-> <<>>]
    /\ nullRead \in reads
    /\ tcp_state = LISTEN /\ currentIsn = 0
    /\ options = [i \in 0..255 |-> 0] /\ opSize = 0 /\ written = <<>>
    /\ wrapped = FALSE
    /\ scan = NoScan
    /\ uartLine = NoLine

\* the first octets of the vector table, which the processor maps at
\* address 0: the initial stack pointer 0x20001000
VectorTable == <<0, 16, 0, 32>>

\* no line of the operator of Spec makes the console block read through a
\* null pointer, and every option the code looks for in a message is found
Init == InitFrom(InitialStores, {<<>>}) /\ nullOctets = VectorTable

\* the flag is read and the identity is left as the reset left it
etherInitWithoutReload(m) ==
    [m EXCEPT !.dhcpEnabled = (m.eeprom[0] # WordZero)]

\* dhcpEnabled = readEeprom(0) > 0; if (!dhcpEnabled) getDetailsFromEprom();
etherInit(m) ==
    LET m1 == [m EXCEPT !.dhcpEnabled = (m.eeprom[0] # WordZero)]
    IN  IF m1.dhcpEnabled THEN m1 ELSE getDetailsFromEprom(m1)

\* main() up to the loop: state = dhcpMode ? INIT : STATIC
Boot ==
    /\ pc = "boot"
    /\ pc' = "cmd"
    /\ SetMem(etherInit(Mem))
    /\ state' = IF etherInit(Mem).dhcpEnabled THEN INIT ELSE STATIC
    /\ UNCHANGED <<flagVars, timers, tempIpAddress, serverIpAddress,
                   serverMacAddress, txLog, invalidCmd, nCmds, nFrames, nTicks,
                   ackVars, passVars, storeGhost, tcpVars, optVars, callVars>>

\* the ghost record of the last accepted ACK is dropped when the DHCP state changes
AckGhost ==
    /\ ackedIn' = IF state' = state THEN ackedIn ELSE 0
    /\ safeFired' = IF state' = state THEN safeFired ELSE FALSE

\* ------------------------------------------------------------------------
\* Timer tick interrupt
\* ------------------------------------------------------------------------
\* The 1 Hz interrupt is taken between any two blocks of a loop pass.  A pass
\* takes far less than a second, so at most one tick falls into a pass.
TickPoints ==
    {"cmd", "init", "discover", "bound", "renew", "renewReq", "rebind",
     "rebindReq", "leaseEnd", "release", "toInit", "packet"}

TickWithin(limit) ==
    /\ pc \in TickPoints
    /\ ~tickedInPass
    /\ tickedInPass' = TRUE
    /\ ArmedSlots(timers) # {}
    /\ nTicks < limit
    /\ nTicks' = nTicks + 1
    /\ timers' = tickIsr(timers)
    /\ sendDhcp' = (sendDhcp \/ "sendDhcpDiscovery" \in Fired(timers))
    /\ renewLease' = (renewLease \/ "startT1Timer" \in Fired(timers))
    /\ sendRenewRequest' = (sendRenewRequest \/ "startRenewing" \in Fired(timers))
    /\ rebind' = (rebind \/ "startT2Timer" \in Fired(timers))
    /\ sendRebindRequest' = (sendRebindRequest \/ "startRebinding" \in Fired(timers))
    /\ leaseEnd' = (leaseEnd \/ "leaseEndTimer" \in Fired(timers))
    /\ safeToUseIp' = (safeToUseIp \/ "arpResponse" \in Fired(timers))
    /\ transitionToInit' = (transitionToInit \/ "startDeclineTimer" \in Fired(timers))
    /\ safeFired' = (safeFired \/ ("arpResponse" \in Fired(timers) /\ ackedIn # 0))
    /\ UNCHANGED <<pc, state, dhcpEnabled, dhcpRelease, eeprom, idVars, txLog,
                   invalidCmd, nCmds, nFrames, ackedIn, lineInPass,
                   expiredInPass, expiredPrevPass, ackLease, rxFrame, storeGhost, tcpVars, optVars, callVars>>

Tick == TickWithin(MaxTicks)
LeaseTick == TickWithin(MaxLeaseTicks)

\* ------------------------------------------------------------------------
\* Console block (main.c, "Put terminal processing here")
\* ------------------------------------------------------------------------
\* fieldNumber <= fieldCount ? the field : 0; the callers read the string
\* through the pointer they get, a null pointer included
getFieldString(line, fieldNumber) ==
    IF HasField(line, fieldNumber) THEN line[fieldNumber] ELSE nullRead

ConsoleStart ==
    [m |-> Mem, state |-> state, timers |-> timers, dhcpRelease |-> dhcpRelease,
     sendRenewRequest |-> sendRenewRequest, valid |-> FALSE, reset |-> FALSE]

\* set without the test of the DHCP state
SetCommandInAnyState(c, line) ==
    IF ~isCommand(line, S_set, 5) THEN c
    ELSE LET add == getFieldString(line, 2)
             a == LineAddr(line)
         IN  IF mystrcmp(S_ip, add)
                  THEN [c EXCEPT !.valid = TRUE, !.m = etherSetIpAddress(c.m, a)]
             ELSE IF mystrcmp(S_gw, add)
                  THEN [c EXCEPT !.valid = TRUE, !.m = etherSetIpGatewayAddress(c.m, a)]
             ELSE IF mystrcmp(S_dns, add)
                  THEN [c EXCEPT !.valid = TRUE, !.m = etherSetDNSAddress(c.m, a)]
             ELSE IF mystrcmp(S_sn, add)
                  THEN [c EXCEPT !.valid = TRUE, !.m = etherSetIpSubnetMask(c.m, a)]
             ELSE [c EXCEPT !.valid = FALSE]

\* set IP | GW | DNS | SN w.x.y.z
SetCommand(c, line) ==
    IF ~isCommand(line, S_set, 5) THEN c
    ELSE LET add == getFieldString(line, 2)
             a == LineAddr(line)
         IN  IF c.state # STATIC THEN [c EXCEPT !.valid = FALSE]
             ELSE IF mystrcmp(S_ip, add)
                  THEN [c EXCEPT !.valid = TRUE, !.m = etherSetIpAddress(c.m, a)]
             ELSE IF mystrcmp(S_gw, add)
                  THEN [c EXCEPT !.valid = TRUE, !.m = etherSetIpGatewayAddress(c.m, a)]
             ELSE IF mystrcmp(S_dns, add)
                  THEN [c EXCEPT !.valid = TRUE, !.m = etherSetDNSAddress(c.m, a)]
             ELSE IF mystrcmp(S_sn, add)
                  THEN [c EXCEPT !.valid = TRUE, !.m = etherSetIpSubnetMask(c.m, a)]
             ELSE [c EXCEPT !.valid = FALSE]

\* dhcp on
DhcpOn(c) ==
    [c EXCEPT !.valid = TRUE, !.m = etherEnableDhcpMode(c.m), !.state = INIT]

\* dhcp off
DhcpOff(c) ==
    [c EXCEPT !.valid = TRUE,
              !.m = getDetailsFromEprom(etherDisableDhcpMode(c.m)),
              !.state = STATIC,
              !.timers = stopAllTimers(c.timers)]

\* dhcp ON | OFF | REFRESH | RELEASE
DhcpCommand(c, line) ==
    IF ~isCommand(line, S_dhcp, 1) THEN c
    ELSE LET str == getFieldString(line, 2)
         IN  IF mystrcmp(str, S_on) THEN DhcpOn(c)
             ELSE IF mystrcmp(str, S_off) THEN DhcpOff(c)
             ELSE IF mystrcmp(str, S_release)
                  THEN IF c.state = STATIC THEN [c EXCEPT !.valid = FALSE]
                       ELSE [c EXCEPT !.valid = TRUE, !.dhcpRelease = TRUE]
             ELSE IF mystrcmp(str, S_refresh)
                  THEN IF c.state = STATIC THEN [c EXCEPT !.valid = FALSE]
                       ELSE [c EXCEPT !.valid = TRUE, !.sendRenewRequest = TRUE]
             ELSE [c EXCEPT !.valid = FALSE]

IfconfigCommand(c, line) ==
    IF isCommand(line, S_ifconfig, 0) THEN [c EXCEPT !.valid = TRUE] ELSE c

\* NVIC_APINT_R |= NVIC_APINT_SYSRESETREQ
RebootCommand(c, line) ==
    IF isCommand(line, S_reboot, 0) THEN [c EXCEPT !.valid = TRUE, !.reset = TRUE] ELSE c

ProcessLine(line) ==
    RebootCommand(IfconfigCommand(DhcpCommand(SetCommand(ConsoleStart, line), line), line), line)

\* a new pass begins: the pass-local records are shifted
PassStart(lineProcessed) ==
    /\ txLog' = <<>>
    /\ lineInPass' = lineProcessed
    /\ expiredInPass' = FALSE
    /\ expiredPrevPass' = (expiredInPass /\ lineInPass = <<>>)
    /\ ackLease' = 0
    /\ tickedInPass' = FALSE
    /\ rxFrame' = <<>>

\* kbhitUart0() is false
ConsoleIdle ==
    /\ pc = "cmd"
    /\ pc' = "init"
    /\ PassStart(<<>>)
    /\ UNCHANGED <<state, dhcpEnabled, flagVars, timers, eeprom, idVars,
                   invalidCmd, nCmds, nFrames, nTicks, ackVars, storeGhost, tcpVars, optVars, callVars>>

\* the slots the operator means to set with the line, and the address typed
SetFields == <<S_ip, S_gw, S_dns, S_sn>>
IntendedSlots(line) ==
    {i \in 1..4 : Len(line) = 6 /\ line[1] = S_set /\ line[2] = SetFields[i]}
TypedAddr(line) == <<atoi(line[3]), atoi(line[4]), atoi(line[5]), atoi(line[6])>>
LastSetAfter(line, store) ==
    [i \in 1..4 |->
        IF state = STATIC /\ i \in IntendedSlots(line) THEN TypedAddr(line)
        ELSE IF store[i] # eeprom[i] THEN <<>>
        ELSE lastSet[i]]

\* a complete line of the set lines has been read by getsUart0 and is acted
\* upon; the operator types at most limit lines
ConsoleWithin(lines, limit) ==
    /\ pc = "cmd"
    /\    \E line \in lines :
             LET c == ProcessLine(line)
             IN  /\ nCmds < limit
                 /\ nCmds' = nCmds + 1
                 /\ nullRead' = nullRead
                 /\ nullOctets' = nullOctets
                 /\ IF c.reset
                    THEN /\ pc' = "boot"
                         /\ RamReset
                         /\ UNCHANGED <<eeprom, nFrames, nTicks, lastSet, optVars, callVars>>
                    ELSE /\ pc' = "init"
                         /\ lastSet' = LastSetAfter(line, c.m.eeprom)
                         /\ PassStart(line)
                         /\ SetMem(c.m)
                         /\ state' = c.state
                         /\ timers' = c.timers
                         /\ dhcpRelease' = c.dhcpRelease
                         /\ sendRenewRequest' = c.sendRenewRequest
                         /\ invalidCmd' = ~c.valid
                         /\ AckGhost
                         /\ UNCHANGED <<sendDhcp, renewLease, sendRebindRequest,
                                        rebind, leaseEnd, safeToUseIp,
                                        transitionToInit, tempIpAddress,
                                        serverIpAddress, serverMacAddress, nFrames, nTicks,
                                        tcpVars, optVars, callVars>>

ConsoleFrom(lines) == ConsoleWithin(lines, MaxCmds)

Console == ConsoleFrom(OperatorLines)
LanConsole == ConsoleWithin(LanLines, MaxLanCmds)

\* ------------------------------------------------------------------------
\* Flag blocks of the main loop
\* ------------------------------------------------------------------------
\* if (state == INIT) { sendDhcp = true; startPeriodicTimer(sendDhcpDiscovery, 15); }
StateInit ==
    /\ pc = "init"
    /\ pc' = "discover"
    /\ IF state = INIT
       THEN /\ sendDhcp' = TRUE
            /\ timers' = startPeriodicTimer(timers, "sendDhcpDiscovery", DiscoverPeriod)
       ELSE UNCHANGED <<sendDhcp, timers>>
    /\ UNCHANGED <<state, dhcpEnabled, renewLease, sendRenewRequest,
                   sendRebindRequest, rebind, leaseEnd, safeToUseIp, dhcpRelease,
                   transitionToInit, eeprom, idVars, txLog, invalidCmd, nCmds,
                   nFrames, nTicks, ackVars, passVars, storeGhost, tcpVars, optVars, callVars>>

\* if (sendDhcp) { sendDhcp = false; etherSendDhcpPacket(data, 1); state = SELECTING; }
SendDiscover ==
    /\ pc = "discover"
    /\ pc' = "bound"
    /\ IF sendDhcp
       THEN /\ sendDhcp' = FALSE
            /\ txLog' = Append(txLog, etherSendDhcpPacket(DiscoverType, NonIpRx))
            /\ state' = SELECTING
       ELSE UNCHANGED <<sendDhcp, txLog, state>>
    /\ AckGhost
    /\ UNCHANGED <<dhcpEnabled, renewLease, sendRenewRequest, sendRebindRequest,
                   rebind, leaseEnd, safeToUseIp, dhcpRelease, transitionToInit,
                   timers, eeprom, idVars, invalidCmd, nCmds, nFrames, nTicks, passVars, storeGhost, tcpVars, optVars, callVars>>

\* if (safeToUseIp && state == REQUESTING) state = BOUND;
SafeToUse ==
    /\ pc = "bound"
    /\ pc' = "renew"
    /\ state' = IF safeToUseIp /\ state = REQUESTING THEN BOUND ELSE state
    /\ AckGhost
    /\ UNCHANGED <<dhcpEnabled, flagVars, timers, eeprom, idVars, txLog,
                   invalidCmd, nCmds, nFrames, nTicks, passVars, storeGhost, tcpVars, optVars, callVars>>

\* if (renewLease) { state = RENEWING; renewLease = false; startPeriodicTimer(startRenewing, 15); }
RenewLease ==
    /\ pc = "renew"
    /\ pc' = "renewReq"
    /\ IF renewLease
       THEN /\ state' = RENEWING
            /\ renewLease' = FALSE
            /\ timers' = startPeriodicTimer(timers, "startRenewing", RenewPeriod)
       ELSE UNCHANGED <<state, renewLease, timers>>
    /\ AckGhost
    /\ UNCHANGED <<dhcpEnabled, sendDhcp, sendRenewRequest, sendRebindRequest,
                   rebind, leaseEnd, safeToUseIp, dhcpRelease, transitionToInit,
                   eeprom, idVars, txLog, invalidCmd, nCmds, nFrames, nTicks, passVars, storeGhost, tcpVars, optVars, callVars>>

\* if (sendRenewRequest) { etherSendDhcpPacket(data, 4); sendRenewRequest = false; }
SendRenewRequest ==
    /\ pc = "renewReq"
    /\ pc' = "rebind"
    /\ IF sendRenewRequest
       THEN /\ txLog' = Append(txLog, etherSendDhcpPacket(RenewType, NonIpRx))
            /\ sendRenewRequest' = FALSE
       ELSE UNCHANGED <<txLog, sendRenewRequest>>
    /\ UNCHANGED <<state, dhcpEnabled, sendDhcp, renewLease, sendRebindRequest,
                   rebind, leaseEnd, safeToUseIp, dhcpRelease, transitionToInit,
                   timers, eeprom, idVars, invalidCmd, nCmds, nFrames, nTicks, ackVars,
                   passVars, storeGhost, tcpVars, optVars, callVars>>

\* if (rebind) { stopTimer(startRenewing); state = REBINDING; rebind = false;
\*               startPeriodicTimer(startRebinding, 15); }
Rebind ==
    /\ pc = "rebind"
    /\ pc' = "rebindReq"
    /\ IF rebind
       THEN /\ state' = REBINDING
            /\ rebind' = FALSE
            /\ timers' = startPeriodicTimer(stopTimer(timers, "startRenewing"),
                                            "startRebinding", RebindPeriod)
       ELSE UNCHANGED <<state, rebind, timers>>
    /\ AckGhost
    /\ UNCHANGED <<dhcpEnabled, sendDhcp, renewLease, sendRenewRequest,
                   sendRebindRequest, leaseEnd, safeToUseIp, dhcpRelease,
                   transitionToInit, eeprom, idVars, txLog, invalidCmd, nCmds,
                   nFrames, nTicks, passVars, storeGhost, tcpVars, optVars, callVars>>

\* if (sendRebindRequest) { sendRebindRequest = false; etherSendDhcpPacket(data, 5); }
SendRebindRequest ==
    /\ pc = "rebindReq"
    /\ pc' = "leaseEnd"
    /\ IF sendRebindRequest
       THEN /\ txLog' = Append(txLog, etherSendDhcpPacket(RebindType, NonIpRx))
            /\ sendRebindRequest' = FALSE
       ELSE UNCHANGED <<txLog, sendRebindRequest>>
    /\ UNCHANGED <<state, dhcpEnabled, sendDhcp, renewLease, sendRenewRequest,
                   rebind, leaseEnd, safeToUseIp, dhcpRelease, transitionToInit,
                   timers, eeprom, idVars, invalidCmd, nCmds, nFrames, nTicks, ackVars,
                   passVars, storeGhost, tcpVars, optVars, callVars>>

\* if (leaseEnd) { stopTimer(startRebinding); state = INIT; leaseEnd = false;
\*                 etherSetIpAddressToZeroes(); }
LeaseEnd ==
    /\ pc = "leaseEnd"
    /\ pc' = "release"
    /\ IF leaseEnd
       THEN /\ timers' = stopTimer(timers, "startRebinding")
            /\ state' = INIT
            /\ leaseEnd' = FALSE
            /\ ipAddress' = etherSetIpAddressToZeroes
            /\ expiredInPass' = TRUE
       ELSE UNCHANGED <<timers, state, leaseEnd, ipAddress, expiredInPass>>
    /\ AckGhost
    /\ UNCHANGED <<dhcpEnabled, sendDhcp, renewLease, sendRenewRequest,
                   sendRebindRequest, rebind, safeToUseIp, dhcpRelease,
                   transitionToInit, eeprom, tempIpAddress, ipSubnetMask,
                   ipGwAddress, dnsAddress, serverIpAddress, serverMacAddress,
                   txLog, invalidCmd, nCmds, nFrames, nTicks, lineInPass,
                   expiredPrevPass, ackLease, tickedInPass, rxFrame, storeGhost, tcpVars, optVars, callVars>>

\* if (dhcpRelease) { dhcpRelease = false; etherSendDhcpPacket(data, 7);
\*   etherDisableDhcpMode(); state = STATIC; getDetailsFromEprom(); stopAllTimers(); }
DhcpRelease ==
    /\ pc = "release"
    /\ pc' = "toInit"
    /\ IF dhcpRelease
       THEN /\ dhcpRelease' = FALSE
            /\ txLog' = Append(txLog, etherSendDhcpPacket(ReleaseType, NonIpRx))
            /\ SetMem(getDetailsFromEprom(etherDisableDhcpMode(Mem)))
            /\ state' = STATIC
            /\ timers' = stopAllTimers(timers)
       ELSE UNCHANGED <<dhcpRelease, txLog, ipAddress, ipGwAddress, dnsAddress,
                        ipSubnetMask, dhcpEnabled, eeprom, state, timers>>
    /\ AckGhost
    /\ UNCHANGED <<sendDhcp, renewLease, sendRenewRequest, sendRebindRequest,
                   rebind, leaseEnd, safeToUseIp, transitionToInit,
                   tempIpAddress, serverIpAddress, serverMacAddress, invalidCmd,
                   nCmds, nFrames, nTicks, passVars, storeGhost, tcpVars, optVars, callVars>>

\* if (transitionToInit) { transitionToInit = false; state = INIT; }
TransitionToInit ==
    /\ pc = "toInit"
    /\ pc' = "packet"
    /\ IF transitionToInit
       THEN /\ transitionToInit' = FALSE
            /\ state' = INIT
       ELSE UNCHANGED <<transitionToInit, state>>
    /\ AckGhost
    /\ UNCHANGED <<dhcpEnabled, sendDhcp, renewLease, sendRenewRequest,
                   sendRebindRequest, rebind, leaseEnd, safeToUseIp, dhcpRelease,
                   timers, eeprom, idVars, txLog, invalidCmd, nCmds, nFrames, nTicks,
                   passVars, storeGhost, tcpVars, optVars, callVars>>

\* ------------------------------------------------------------------------
\* Packet processing block of the main loop
\* ------------------------------------------------------------------------
\* what the dispatch of frame f does, as a record of the values it leaves
Dispatch(f) ==
    LET ip == etherIsIp(f)
        uni == ip /\ etherIsIpUnicast(f)
        \* Handle ARP Response to Gratuituous ARP
        conflict == uni /\ isArpResponse(f)
        tm1 == IF conflict
               THEN startOneshotTimer(stopAllTimers(timers), "startDeclineTimer",
                                      DeclineSeconds)
               ELSE timers
        \* Handle TCP Packets
        tcp == IF uni /\ etherIsTcp(f) THEN TcpBranch(f)
               ELSE [tx |-> <<>>, tcp_state |-> tcp_state, currentIsn |-> currentIsn]
        \* Handle IP Broadcast packets
        bc == ip /\ etherIsIpBroadcast(f) /\ etherIsUdp(f)
        offer == bc /\ isDhcpOffer(f) /\ state = SELECTING
        st1 == IF offer THEN REQUESTING ELSE state
        buf == IF offer THEN RequestInBuffer(f) ELSE f
        \* uint32_t lease = isDhcpAck(data);
        lease == IF bc THEN isDhcpAck(buf) ELSE 0
        isAck == bc /\ IsAck(buf)
        ip1 == IF isAck THEN (IF offer THEN f.yiaddr ELSE tempIpAddress) ELSE ipAddress
        accepted == lease > 0 /\ st1 \in {REQUESTING, RENEWING, REBINDING}
    IN  [state |-> st1,
         tempIpAddress |-> IF offer THEN f.yiaddr ELSE tempIpAddress,
         serverMacAddress |-> IF bc THEN buf.sourceAddress ELSE serverMacAddress,
         ipAddress |-> ip1,
         dnsAddress |-> IF isAck THEN ReadOption(buf, 6, 4, buf.opt6) ELSE dnsAddress,
         ipSubnetMask |-> IF isAck THEN ReadOption(buf, 1, 4, buf.opt1) ELSE ipSubnetMask,
         ipGwAddress |-> IF isAck THEN ReadOption(buf, 3, 4, buf.opt3) ELSE ipGwAddress,
         serverIpAddress |-> IF isAck THEN buf.sourceIp ELSE serverIpAddress,
         accepted |-> accepted,
         lease |-> lease,
         timers |-> IF accepted THEN ArmLeaseTimers(tm1, lease) ELSE tm1,
         tcp |-> tcp,
         \* the frames sent, in the order of the tests of the block
         tx |-> (IF etherIsArpRequest(f) THEN <<etherSendArpResponse(f)>> ELSE <<>>)
                \o (IF uni /\ etherIsPingRequest(f)
                    THEN <<etherSendPingResponse(f)>> ELSE <<>>)
                \o (IF uni /\ etherIsUdp(f)
                    THEN <<etherSendUdpResponse(f, ReceivedText, 9)>> ELSE <<>>)
                \o (IF conflict THEN <<etherSendDhcpPacket(DeclineType, f)>> ELSE <<>>)
                \o tcp.tx
                \o (IF offer THEN <<etherSendDhcpPacket(RequestType, f)>> ELSE <<>>)
                \o (IF accepted /\ st1 = REQUESTING
                    THEN <<sendGratiousArp(ip1)>> ELSE <<>>)]

\* etherIsDataAvailable() is false
PacketIdle ==
    /\ pc = "packet"
    /\ pc' = "cmd"
    /\ UNCHANGED <<state, dhcpEnabled, flagVars, timers, eeprom, idVars, txLog,
                   invalidCmd, nCmds, nFrames, nTicks, ackVars, passVars, storeGhost, tcpVars, optVars, callVars>>

\* a frame of the set frames is taken from the controller and dispatched; at
\* most limit frames arrive
PacketWithin(frames, limit) ==
    /\ pc = "packet"
    /\ pc' = "cmd"
    /\    \E f \in frames :
             \E d \in {Dispatch(f)} :
                 /\ nFrames < limit
                 /\ nFrames' = nFrames + 1
                 /\ state' = d.state
                 /\ tempIpAddress' = d.tempIpAddress
                 /\ serverMacAddress' = d.serverMacAddress
                 /\ ipAddress' = d.ipAddress
                 /\ dnsAddress' = d.dnsAddress
                 /\ ipSubnetMask' = d.ipSubnetMask
                 /\ ipGwAddress' = d.ipGwAddress
                 /\ serverIpAddress' = d.serverIpAddress
                 /\ timers' = d.timers
                 /\ txLog' = txLog \o d.tx
                 /\ ackedIn' = IF d.accepted THEN d.state
                               ELSE IF d.state = state THEN ackedIn ELSE 0
                 /\ safeFired' = IF d.state # state \/ (d.accepted /\ ackedIn = 0)
                                 THEN FALSE ELSE safeFired
                 /\ ackLease' = IF d.accepted THEN d.lease ELSE 0
                 /\ rxFrame' = <<f>>
                 /\ tcp_state' = d.tcp.tcp_state
                 /\ currentIsn' = d.tcp.currentIsn
                 /\ UNCHANGED <<dhcpEnabled, flagVars, eeprom, invalidCmd, nCmds,
                                nTicks, lineInPass, expiredInPass, expiredPrevPass,
                                tickedInPass, storeGhost, optVars, callVars>>

PacketFrom(frames) == PacketWithin(frames, MaxFrames)

PacketProcessing == PacketFrom(RxFrames(ipAddress))
LeasePacketProcessing == PacketFrom(LeaseFrames)
LanPacketProcessing == PacketWithin(ArpFrames(ipAddress), MaxLanFrames)

\* ------------------------------------------------------------------------
\* Specification
\* ------------------------------------------------------------------------
\* one pass of the flag blocks, in the order of main()
FlagBlocks ==
    \/ StateInit
    \/ SendDiscover
    \/ SafeToUse
    \/ RenewLease
    \/ SendRenewRequest
    \/ Rebind
    \/ SendRebindRequest
    \/ LeaseEnd
    \/ DhcpRelease
    \/ TransitionToInit

\* the node with an operator at the console and arbitrary traffic
Next ==
    \/ Boot
    \/ Tick
    \/ ConsoleIdle
    \/ Console
    \/ FlagBlocks
    \/ PacketIdle
    \/ PacketProcessing

Spec == Init /\ [][Next]_vars

\* the node on a LAN without a DHCP server, with an operator who types any
\* line, on any build and with any content of slot 0
LanStores ==
    {[i \in 0..4 |-> IF i = 0 THEN w ELSE StoredIdentity[i]] :
        w \in {WordZero, WordOne, <<65535, 65535>>}}
NullReads == {<<>>, <<"?">>}
LanInit == InitFrom(LanStores, NullReads) /\ nullOctets = VectorTable

LanNext ==
    \/ Boot
    \/ Tick
    \/ ConsoleIdle
    \/ LanConsole
    \/ FlagBlocks
    \/ PacketIdle
    \/ LanPacketProcessing

LanSpec == LanInit /\ [][LanNext]_vars

\* the node as a server on a LAN: echo requests with short and long IP
\* headers and with a total length that exceeds the frame by 4 octets and by
\* 1474 (total length 1505), UDP datagrams
\* with and without checksum, the segments of a Telnet client that
\* acknowledges the current or another sequence number, and the OFFERs of a
\* DHCP server to the node and to another client
ServiceFrames(ip, isn) ==
    {EchoRx(ip, 5, 0, ClearedBuffer), EchoRx(ip, 6, 0, ClearedBuffer),
     EchoRx(ip, 6, 0, UsedBuffer), EchoRx(ip, 15, 0, UsedBuffer),
     EchoRx(ip, 5, 4, UsedBuffer), EchoRx(ip, 5, 1474, RestOfBuffer)}
    \cup {UdpRx(ip, 5, TRUE), UdpRx(ip, 6, TRUE), UdpRx(ip, 5, FALSE)}
    \cup {TcpRx(ip, n, Zero4, TCP_SYN) : n \in {<<0, 0, 3, 232>>, Bcast4}}
    \cup {TcpRx(ip, <<0, 0, 3, 233>>, Octets32(a), flags) :
              a \in {isn, isn + 1},
              flags \in {TCP_ACK, TCP_PSH + TCP_ACK, TCP_FIN + TCP_ACK}}
    \cup {DhcpRx(ServerMac, 2, 2, ch, OfferLease) : ch \in {macAddress, OtherClient}}

ServicePacketProcessing ==
    PacketWithin(ServiceFrames(ipAddress, currentIsn), MaxServiceFrames)

ServiceNext ==
    \/ Boot
    \/ ConsoleIdle
    \/ FlagBlocks
    \/ PacketIdle
    \/ ServicePacketProcessing

ServiceSpec == Init /\ [][ServiceNext]_vars

\* ------------------------------------------------------------------------
\* An options field under construction
\* ------------------------------------------------------------------------
\* the numbers, counts and value octets of the options written: the message
\* type and the lease time, with no value, a short value and a long one, the
\* value octets being an option number or zero
OptionNumbers == {53, 51}
OptionCounts == {0, 4, 125}
OptionOctets == {51, 0}

\* opSize = putOption(options, opSize, number, count, v, ..., v)
PutOption ==
    \E number \in OptionNumbers, count \in OptionCounts, v \in OptionOctets :
        LET r == putOption(options, opSize, number, count, [i \in 1..count |-> v])
        IN  /\ Len(written) < MaxOptions
            /\ options' = r.options
            /\ opSize' = r.size
            /\ written' = Append(written, [cursor |-> opSize, number |-> number,
                                           count |-> count, value |-> v,
                                           returned |-> r.size])
            /\ wrapped' = (wrapped \/ opSize + 2 + count > 255)
            /\ UNCHANGED <<nodeVars, callVars>>

\* an options field is built from cursor 0 on
OptionSpec == Init /\ [][PutOption]_vars

\* ------------------------------------------------------------------------
\* getOption round by round (eth0.c)
\* ------------------------------------------------------------------------
\* the options fields scanned, given by their first octets, every other octet
\* being zero: an empty field, the field of an OFFER, and fields whose first
\* option has the length octet 254, 255 or 250; the numbers looked for, of
\* which 9 is in no field; the sizes passed
ScanOctets == {<<>>, ServerFirstOptions, <<7, 254>>, <<7, 255>>, <<7, 250>>}
ScanNumbers == {53, 54, 9}
ScanSizes == {0, 1, 34, 255}

ScanField(octets) == [i \in 0..511 |-> IF i < Len(octets) THEN octets[i + 1] ELSE 0]

\* uint8_t i = 0;
getOptionCall ==
    \E octets \in ScanOctets, number \in ScanNumbers, size \in ScanSizes :
        /\ scan.pc # "while"
        /\ scan' = [pc |-> "while", octets |-> octets, number |-> number,
                    size |-> size, i |-> 0, before |-> NULL, result |-> NULL]
        /\ UNCHANGED <<nodeVars, optVars, uartLine>>

\* one test of while (i < size) and, when it passes, one round of the loop:
\* if (options[i] == number) return &options[i + 2];
\* else i += options[i + 1] + 2;          the sum is cut to the 8 bits of i
\* and after the loop: return NULL;
getOptionRound ==
    /\ scan.pc = "while"
    /\ scan' =
          IF scan.i < scan.size
          THEN IF ScanField(scan.octets)[scan.i] = scan.number
               THEN [scan EXCEPT !.pc = "returned", !.result = scan.i + 2]
               ELSE [scan EXCEPT !.i = (scan.i + ScanField(scan.octets)[scan.i + 1] + 2) % 256,
                                 !.before = scan.i]
          ELSE [scan EXCEPT !.pc = "returned", !.result = NULL]
    /\ UNCHANGED <<nodeVars, optVars, uartLine>>

ScanNext ==
    \/ getOptionCall
    \/ getOptionRound

ScanSpec == Init /\ [][ScanNext]_vars

\* ------------------------------------------------------------------------
\* getsUart0 character by character (uart0.c)
\* ------------------------------------------------------------------------
\* the characters getcUart0 returns: a lower-case and an upper-case letter, a
\* digit, a space, a backspace, a carriage return and NUL
UartChars == {97, 65, 48, 32, 127, 13, 0}

IsAlnum(c) == (c >= 97 /\ c <= 122) \/ (c >= 65 /\ c <= 90) \/ (c >= 48 /\ c <= 57)

\* data->buffer[index] = c: buffer holds the octets stored at the indices
\* 0 .. MAX_CHARS + 1 (NULL: none yet), top is the highest index written
StoreChar(l, index, c) ==
    [l EXCEPT !.buffer = [l.buffer EXCEPT ![index + 1] = c],
              !.top = IF index > l.top THEN index ELSE l.top]

\* data->charCount = 0;
getsUart0Call ==
    /\ uartLine.pc # "reading"
    /\ uartLine' = [pc |-> "reading", buffer |-> [i \in 1..(MAX_CHARS + 2) |-> NULL],
                    charCount |-> 0, top |-> NULL, echo |-> <<>>]
    /\ UNCHANGED <<nodeVars, optVars, scan>>

\* one round of while ((c = getcUart0())) for the character c; a store
\* behind index MAX_CHARS is the last step followed
getsUart0Char ==
    \E c \in UartChars :
        /\ uartLine.pc = "reading"
        /\ uartLine.top <= MAX_CHARS
        /\ uartLine' =
              IF c = 0 THEN [uartLine EXCEPT !.pc = "returned", !.echo = <<>>]
              ELSE IF c = 127
              THEN IF uartLine.charCount > 0
                   THEN [uartLine EXCEPT !.charCount = @ - 1, !.echo = <<60, 98, 115, 62>>]
                   ELSE [uartLine EXCEPT !.echo = <<>>]
              ELSE IF c = 10 \/ c = 13
              THEN [StoreChar(uartLine, uartLine.charCount, 0)
                        EXCEPT !.pc = "returned", !.echo = <<13, 10>>]
              ELSE IF IsAlnum(c)
              THEN IF uartLine.charCount + 1 = MAX_CHARS
                   THEN [StoreChar(StoreChar(uartLine, uartLine.charCount,
                                             IF c >= 65 /\ c <= 90 THEN c + 32 ELSE c),
                                   MAX_CHARS, 0)
                             EXCEPT !.charCount = MAX_CHARS, !.pc = "returned",
                                    !.echo = <<IF c >= 65 /\ c <= 90 THEN c + 32 ELSE c,
                                               13, 10>>]
                   ELSE [StoreChar(uartLine, uartLine.charCount,
                                   IF c >= 65 /\ c <= 90 THEN c + 32 ELSE c)
                             EXCEPT !.charCount = @ + 1,
                                    !.echo = <<IF c >= 65 /\ c <= 90 THEN c + 32 ELSE c>>]
              ELSE [StoreChar(uartLine, uartLine.charCount, 0)
                        EXCEPT !.charCount = @ + 1, !.echo = <<32>>]
        /\ UNCHANGED <<nodeVars, optVars, scan>>

UartNext ==
    \/ getsUart0Call
    \/ getsUart0Char

UartSpec == Init /\ [][UartNext]_vars

\* the node on a LAN with two DHCP servers that order the options of their
\* OFFERs differently, on builds that differ in what a read through a null
\* pointer yields: the start of the vector table, or by chance the address of
\* the server
OfferFrames == {OfferRx(ServerFirstOptions), OfferRx(ServerLastOptions)}
OfferPacketProcessing == PacketWithin(OfferFrames, MaxOfferFrames)
OfferInit == InitFrom(InitialStores, {<<>>}) /\ nullOctets \in {VectorTable, ServerIp}

OfferNext ==
    \/ Boot
    \/ ConsoleIdle
    \/ FlagBlocks
    \/ PacketIdle
    \/ OfferPacketProcessing

OfferSpec == OfferInit /\ [][OfferNext]_vars

\* the node left unattended with one DHCP server, over a longer time
LeaseNext ==
    \/ Boot
    \/ LeaseTick
    \/ ConsoleIdle
    \/ FlagBlocks
    \/ PacketIdle
    \/ LeasePacketProcessing

LeaseSpec == Init /\ [][LeaseNext]_vars

\* ------------------------------------------------------------------------
\* Properties
\* ------------------------------------------------------------------------
\* the step is the block of the loop at position p (and no tick)
Block(p) == pc = p /\ pc' # pc
\* the frame a step has appended to the log of the pass
Emitted == Len(txLog') = Len(txLog) + 1
LastTx == txLog'[Len(txLog')]
IsDhcpTx(m, type) == m.kind = "dhcp" /\ m.msgType = type
Count(log, type) == Cardinality({i \in DOMAIN log : IsDhcpTx(log[i], type)})
OneShots(tm) == {i \in ArmedSlots(tm) : ~tm[i].reload}

\* C1: in no reachable state are the T1 one-shot (startT1Timer) and the
\* rebind periodic timer (startRebinding) armed at the same time.
C1_T1AndRebindExclusive ==
    ~(Armed(timers, "startT1Timer") /\ Armed(timers, "startRebinding"))

\* C2: the state changes from REQUESTING to BOUND only if, since the state
\* last became REQUESTING, an ACK was accepted and the safe-to-use one-shot
\* armed by that ACK has fired, in every acquisition cycle.
C2_BoundOnlyAfterAckAndSafeTimer ==
    [][(state = REQUESTING /\ state' = BOUND)
          => (ackedIn = REQUESTING /\ safeFired)]_vars

\* C3: once an OFFER has been handled and the state is REQUESTING, the
\* periodic DISCOVER timer no longer acts: no DISCOVER is emitted and the
\* state does not go back to SELECTING.
C3_NoDiscoverWhileRequesting ==
    [][state = REQUESTING
          => /\ state' # SELECTING
             /\ ~(Emitted /\ IsDhcpTx(LastTx, 1))]_vars

\* C4: after T1 fires in BOUND the state becomes RENEWING with a 15 s periodic
\* renew timer armed, and every renew message emitted in RENEWING is a REQUEST
\* (option 53 = 3) sent unicast to the learned server IP and MAC with the
\* broadcast flag clear and ciaddr = the current IP.
C4_RenewIsUnicastRequest ==
    [][/\ (Block("renew") /\ renewLease /\ state = BOUND)
            => (state' = RENEWING /\ ArmedWith(timers', "startRenewing", 15, TRUE))
       /\ (Block("renewReq") /\ sendRenewRequest /\ state = RENEWING)
            => /\ Emitted
               /\ IsDhcpTx(LastTx, 3)
               /\ LastTx.destAddress = serverMacAddress
               /\ LastTx.destIp = serverIpAddress
               /\ LastTx.flags = 0
               /\ LastTx.ciaddr = ipAddress]_vars

\* C5: after T2 fires in RENEWING the renew periodic timer is stopped, the
\* state becomes REBINDING with a 15 s periodic rebind timer armed, and every
\* rebind message emitted is a REQUEST (option 53 = 3) sent to the broadcast
\* MAC and to 255.255.255.255 with ciaddr = the current IP.
C5_RebindIsBroadcastRequest ==
    [][/\ (Block("rebind") /\ rebind /\ state = RENEWING)
            => /\ state' = REBINDING
               /\ ~Armed(timers', "startRenewing")
               /\ ArmedWith(timers', "startRebinding", 15, TRUE)
       /\ (Block("rebindReq") /\ sendRebindRequest)
            => /\ Emitted
               /\ IsDhcpTx(LastTx, 3)
               /\ LastTx.destAddress = Bcast6
               /\ LastTx.destIp = Bcast4
               /\ LastTx.ciaddr = ipAddress]_vars

\* C6: an ACK accepted in RENEWING or REBINDING brings the state back to
\* BOUND: at the latest when the safe-to-use one-shot armed by that ACK has
\* fired and the block that enters BOUND runs, the state is BOUND.
C6_AckWhileRenewingLeadsToBound ==
    [][(Block("bound") /\ ackedIn \in {RENEWING, REBINDING} /\ safeFired)
          => state' = BOUND]_vars

C9_ReleasePass ==
    [][/\ (Block("release") /\ dhcpRelease)
            => /\ Emitted
               /\ IsDhcpTx(LastTx, 7)
               /\ LastTx.destAddress = serverMacAddress
               /\ LastTx.destIp = serverIpAddress
               /\ LastTx.flags = 0
               /\ LastTx.ciaddr = ipAddress
       /\ (Block("packet") /\ Count(txLog, 7) > 0)
            => /\ Count(txLog', 7) = 1
               /\ state' = STATIC
               /\ ArmedSlots(timers') = {}
               /\ ~dhcpEnabled'
               /\ eeprom'[0] = WordZero
               /\ ipAddress' = Unpack(eeprom'[1])
               /\ ipGwAddress' = Unpack(eeprom'[2])
               /\ dnsAddress' = Unpack(eeprom'[3])
               /\ ipSubnetMask' = Unpack(eeprom'[4])]_vars

\* C10: after `dhcp off` is processed, from any DHCP state, the state is
\* STATIC, no timer is armed, slot 0 is 0 and the IP, gateway, DNS and subnet
\* mask in memory equal slots 1, 2, 3 and 4.
C10_DhcpOff ==
    [][(pc = "cmd" /\ pc' = "init" /\ lineInPass' = <<S_dhcp, S_off>>)
          => /\ state' = STATIC
             /\ ArmedSlots(timers') = {}
             /\ eeprom'[0] = WordZero
             /\ ipAddress' = Unpack(eeprom'[1])
             /\ ipGwAddress' = Unpack(eeprom'[2])
             /\ dnsAddress' = Unpack(eeprom'[3])
             /\ ipSubnetMask' = Unpack(eeprom'[4])]_vars

\* `dhcp off` has ended a lease obtained from the server
C10_Witness ==
    /\ pc = "init" /\ lineInPass = <<S_dhcp, S_off>>
    /\ state = STATIC /\ serverIpAddress = ServerIp /\ tempIpAddress = OfferedIp
    /\ ipAddress = Unpack(eeprom[1])

\* the frame dispatched by the step, if it dispatches one
Dispatched(f) == Block("packet") /\ rxFrame' = <<f>>
\* f reaches the DHCP tests of the packet block
IsBroadcastUdp(f) == etherIsIp(f) /\ etherIsIpBroadcast(f) /\ etherIsUdp(f)
IdentityUnchanged ==
    /\ ipAddress' = ipAddress
    /\ ipSubnetMask' = ipSubnetMask
    /\ ipGwAddress' = ipGwAddress
    /\ dnsAddress' = dnsAddress

\* C11: a DHCP OFFER dispatched while the state is not SELECTING, and a DHCP
\* ACK dispatched while the state is not REQUESTING, RENEWING or REBINDING, is
\* ignored: the state, the timer table and the identity (IP, subnet mask,
\* gateway, DNS) are unchanged and no frame is emitted.
C11_UnexpectedDhcpIgnored ==
    [][\A f \in RxFrames(ipAddress) :
          (/\ Dispatched(f)
           /\ IsBroadcastUdp(f)
           /\ \/ isDhcpOffer(f) /\ state # SELECTING
              \/ IsAck(f) /\ state \notin {REQUESTING, RENEWING, REBINDING})
          => /\ state' = state
             /\ timers' = timers
             /\ IdentityUnchanged
             /\ txLog' = txLog]_vars

\* C12: when the reply of another host to the gratuitous ARP is dispatched
\* while the state is REQUESTING, a DHCP DECLINE is emitted, all timers are
\* stopped and a 10 s one-shot is armed; when that one-shot has fired the
\* state becomes INIT.
C12_ArpReplyDeclines ==
    [][/\ (Dispatched(ArpReplyRx) /\ state = REQUESTING /\ ackedIn = REQUESTING)
            => /\ Emitted
               /\ IsDhcpTx(LastTx, 4)
               /\ Cardinality(ArmedSlots(timers')) = 1
               /\ ArmedWith(timers', "startDeclineTimer", 10, FALSE)
       /\ (Block("toInit") /\ transitionToInit) => state' = INIT]_vars

\* C13: at boot the state is INIT iff slot 0 is non-zero and STATIC
\* otherwise; when it is STATIC the IP, gateway, DNS and subnet mask in memory
\* equal slots 1, 2, 3 and 4.
C13_BootState ==
    [][Block("boot")
          => /\ state' = INIT <=> eeprom[0] # WordZero
             /\ state' = STATIC <=> eeprom[0] = WordZero
             /\ state' = STATIC
                  => /\ ipAddress' = Unpack(eeprom'[1])
                     /\ ipGwAddress' = Unpack(eeprom'[2])
                     /\ dnsAddress' = Unpack(eeprom'[3])
                     /\ ipSubnetMask' = Unpack(eeprom'[4])]_vars

\* the node has rebooted into STATIC with an address the operator had set
C13_Witness ==
    /\ pc = "cmd" /\ nCmds = 2 /\ timers = EmptyTable /\ lineInPass = <<>>
    /\ state = STATIC /\ lastSet[1] = <<255, 0, 128, 7>>
    /\ ipAddress = <<255, 0, 128, 7>> /\ tickedInPass = FALSE /\ nFrames = 0

\* C14: whenever the loop finds the state INIT (after boot with the flag set,
\* after `dhcp on`, after lease expiry), that pass arms the 15 s periodic
\* discover timer, emits one DISCOVER (broadcast MAC, flags 0x8000, option
\* 53 = 1, ciaddr 0) and sets the state to SELECTING.
C14_InitSendsDiscover ==
    [][/\ (Block("init") /\ state = INIT)
            => ArmedWith(timers', "sendDhcpDiscovery", 15, TRUE)
       /\ (Block("discover") /\ state = INIT)
            => /\ Emitted
               /\ IsDhcpTx(LastTx, 1)
               /\ LastTx.destAddress = Bcast6
               /\ LastTx.flags = 32768
               /\ LastTx.ciaddr = Zero4
               /\ Count(txLog', 1) = 1
               /\ state' = SELECTING
       /\ ~Block("discover") => Count(txLog', 1) <= Count(txLog, 1)]_vars

\* `dhcp on` typed while a lease was held has restarted the discovery
C14_Witness ==
    /\ pc = "bound" /\ lineInPass = <<S_dhcp, S_on>> /\ state = SELECTING
    /\ Count(txLog, 1) = 1 /\ serverIpAddress = ServerIp
    /\ Armed(timers, "sendDhcpDiscovery") /\ Armed(timers, "leaseEndTimer")

\* the step is the console block acting on line
ConsoleStep(line) == pc = "cmd" /\ pc' = "init" /\ lineInPass' = line
\* the console block has left the node as it was
NothingChanged ==
    /\ state' = state
    /\ dhcpEnabled' = dhcpEnabled
    /\ IdentityUnchanged
    /\ eeprom' = eeprom
    /\ timers' = timers
    /\ UNCHANGED flagVars

\* C15: in every reachable state in which the DHCP-enabled flag is false, the
\* IP, gateway, DNS and subnet mask in memory equal slots 1, 2, 3 and 4
\* (from the end of the boot on).
C15_IdentityFromStoreWhenDhcpOff ==
    (pc # "boot" /\ ~dhcpEnabled) => IdentityFromStore

\* C16: in STATIC, `set dns w x y z` sets the DNS address in memory and slot 3
\* to w.x.y.z and leaves the gateway address in memory and slot 2 unchanged.
C16_SetDns ==
    [][\A line \in LanLines :
          (ConsoleStep(line) /\ state = STATIC /\ IntendedSlots(line) = {3})
          => /\ dnsAddress' = TypedAddr(line)
             /\ eeprom'[3] = Pack(TypedAddr(line))
             /\ ipGwAddress' = ipGwAddress
             /\ eeprom'[2] = eeprom[2]]_vars

MemAfter(i) ==
    CASE i = 1 -> ipAddress'
      [] i = 2 -> ipGwAddress'
      [] i = 3 -> dnsAddress'
      [] i = 4 -> ipSubnetMask'
Reload ==
    \/ Block("boot") /\ eeprom[0] = WordZero
    \/ ConsoleStep(<<S_dhcp, S_off>>)
    \/ Block("release") /\ dhcpRelease
C19_ArgumentCountsAreMinima ==
    [][\A line \in LanLines :
          ConsoleStep(line)
          => /\ (line[1] = S_set /\ Len(line) - 1 < 5) => (invalidCmd' /\ NothingChanged)
             /\ (line[1] = S_dhcp /\ Len(line) - 1 < 1) => (invalidCmd' /\ NothingChanged)
             /\ (line[1] = S_set /\ Len(line) - 1 > 5 /\ line[2] = S_ip /\ state = STATIC)
                   => ~invalidCmd'
             /\ (line[1] = S_dhcp /\ Len(line) - 1 > 1 /\ line[2] = S_on)
                   => ~invalidCmd']_vars

\* C20: for every ARP request whose target IP is the configured IP, the
\* response handed to the driver is 42 octets long with op = 2, sender MAC =
\* our MAC, sender IP = our IP, target MAC and IP = the request's sender MAC
\* and IP, Ethernet destination = the request's Ethernet source and Ethernet
\* source = our MAC.
C20_ArpResponse ==
    [][\A f \in ArpFrames(ipAddress) :
          (Dispatched(f) /\ f.arpOp = 1 /\ f.arpDestIp = ipAddress)
          => /\ Emitted
             /\ LastTx.kind = "arp"
             /\ LastTx.size = 42
             /\ LastTx.op = 2
             /\ LastTx.arpSourceAddress = macAddress
             /\ LastTx.arpSourceIp = ipAddress
             /\ LastTx.arpDestAddress = f.arpSourceAddress
             /\ LastTx.arpDestIp = f.arpSourceIp
             /\ LastTx.destAddress = f.sourceAddress
             /\ LastTx.sourceAddress = macAddress]_vars

\* a request relayed by another station for an address the operator had set
\* has been answered
C20_Witness ==
    /\ pc = "cmd" /\ ipAddress = <<255, 0, 128, 7>>
    /\ rxFrame = <<ArpRx(OtherMac, 1, HostMac, HostIp, ipAddress)>>
    /\ Len(txLog) = 1 /\ txLog[1].kind = "arp" /\ txLog[1].destAddress = OtherMac

\* C30: every DHCP state change stops all timers before it arms new ones:
\* when the entry into SELECTING, RENEWING or REBINDING arms its periodic
\* timer, every timer armed before has been stopped, so that the periodic
\* timer is the only one armed.
C30_StateChangeStopsAllTimers ==
    [][(\/ Block("init") /\ state = INIT
        \/ Block("renew") /\ renewLease
        \/ Block("rebind") /\ rebind)
          => /\ Cardinality(ArmedSlots(timers')) = 1
             /\ OneShots(timers') = {}]_vars

\* ------------------------------------------------------------------------
\* Services: echo, UDP, TCP, options, checksums
\* ------------------------------------------------------------------------
\* the frame dispatched by the step, and the frames the step has sent
Rx == rxFrame'[1]
Sent == SubSeq(txLog', Len(txLog) + 1, Len(txLog'))
DispatchedOctets == Block("packet") /\ rxFrame' # <<>> /\ Rx.ipHeader # <<>>
\* the frame passes etherIsIp and is addressed to the node
ToNode(f) == etherIsIp(f) /\ etherIsIpUnicast(f)
\* the one's-complement sum of the first n octets of data folds to zero
Verifies(data, n) == getEtherChecksum(etherSumWords(0, data, 1, n)) = 0

\* C21: the echo reply to an echo request that passes classification, with
\* any IP header length, carries an ICMP checksum that verifies over the
\* ntohs(ip.length) - 4 * IHL octets from the ICMP header on.
C21_EchoReplyChecksum ==
    [][DispatchedOctets /\ ToNode(Rx) /\ etherIsPingRequest(Rx)
          => /\ Len(Sent) = 1
             /\ Sent[1].kind = "icmp"
             /\ Verifies(Sent[1].payload,
                         IpLength(Sent[1].ipHeader) - IpHeaderOctets(Sent[1].ipHeader))]_vars

\* the DHCP state, the identity, the timers, the store and the TCP connection
\* are as before the step
NoStateChange == NothingChanged /\ UNCHANGED tcpVars

\* C26: a received IPv4 frame whose total-length field disagrees with the
\* number of octets received is dropped: nothing is sent and no state changes.
C26_LengthMismatchDropped ==
    [][DispatchedOctets /\ IpLength(Rx.ipHeader) # Len(Rx.ipHeader) + Len(Rx.payload)
          => Sent = <<>> /\ NoStateChange]_vars

\* C27: a received UDP datagram with protocol 17 whose checksum field is zero
\* is accepted by etherIsUdp, whatever it carries.
C27_ZeroUdpChecksumAccepted ==
    [][DispatchedOctets /\ Rx.protocol = PROTO_UDP /\ Load16(Rx.payload, 7) = 0
          => etherIsUdp(Rx)]_vars

\* C29: every IPv4 frame handed to the driver (echo reply, UDP response,
\* DHCP packet, SYN|ACK, Telnet data, ACK and FIN|ACK) has a header whose
\* one's-complement sum over (revSize & 0x0F) * 4 octets, checksum field
\* included, folds to zero.
C29_EmittedHeaderVerifies ==
    \A i \in DOMAIN txLog :
        txLog[i].kind # "arp"
            => Verifies(txLog[i].ipHeader, (txLog[i].ipHeader[1] % 16) * 4)

\* a UDP response with IP options, or a Telnet data segment, is in the log
C29_Witness ==
    \E i \in DOMAIN txLog :
        \/ txLog[i].kind = "udp" /\ Len(txLog[i].ipHeader) = 24
        \/ txLog[i].kind = "tcp" /\ Len(txLog[i].payload) = 25

\* a segment of the TCP service, and the flags and numbers of a segment
TcpDispatched == DispatchedOctets /\ ToNode(Rx) /\ etherIsTcp(Rx)
HasFlag(segment, flag) == (segment[14] \div flag) % 2 = 1
Hi16(o) == o[1] * 256 + o[2]
Lo16(o) == o[3] * 256 + o[4]
\* a = s + 1 modulo 2^32, on the octets of both
IsNext32(a, s) ==
    /\ Lo16(a) = (Lo16(s) + 1) % 65536
    /\ Hi16(a) = (Hi16(s) + (IF Lo16(s) = 65535 THEN 1 ELSE 0)) % 65536
\* the octets of n < 2^31 as a sequence number
IsNumber32(o, n) == Hi16(o) = n \div 65536 /\ Lo16(o) = n % 65536

AcksCurrentIsn ==
    /\ HasFlag(Rx.payload, TCP_ACK)
    /\ ~HasFlag(Rx.payload, TCP_SYN)
    /\ IsNumber32(SubSeq(Rx.payload, 9, 12), currentIsn)

\* C22: in tcp_state SYN_RECEIVED a dispatched TCP segment with ACK set, SYN
\* clear and acknowledgement number = currentIsn makes tcp_state ESTABLISHED,
\* and tcp_state becomes ESTABLISHED in no other way.
C22_Established ==
    [][/\ TcpDispatched /\ tcp_state = SYN_RECEIVED /\ AcksCurrentIsn
             => tcp_state' = ESTABLISHED
       /\ tcp_state' = ESTABLISHED /\ tcp_state # ESTABLISHED
             => TcpDispatched /\ tcp_state = SYN_RECEIVED /\ AcksCurrentIsn]_vars

\* the connection is established by the ACK of the peer
C22_Witness ==
    /\ tcp_state = ESTABLISHED
    /\ rxFrame # <<>>
    /\ rxFrame[1].protocol = PROTO_TCP
    /\ rxFrame[1].payload[14] = TCP_ACK

\* C23: a FIN|ACK segment with acknowledgement number = currentIsn that is
\* handled by the FIN branch (no SYN, no PSH, tcp_state not SYN_RECEIVED) is
\* answered by exactly two frames: first ACK without FIN, then ACK with FIN,
\* both with sequence number = currentIsn before the call and acknowledgement
\* number = received sequence number + 1; currentIsn increases by 1 and
\* tcp_state becomes FINWAIT_1.
C23_FinAnswered ==
    [][(/\ TcpDispatched /\ AcksCurrentIsn /\ HasFlag(Rx.payload, TCP_FIN)
        /\ ~HasFlag(Rx.payload, TCP_PSH) /\ tcp_state # SYN_RECEIVED)
          => /\ Len(Sent) = 2
             /\ \A i \in 1..2 :
                   /\ Sent[i].kind = "tcp"
                   /\ HasFlag(Sent[i].payload, TCP_ACK)
                   /\ IsNumber32(SubSeq(Sent[i].payload, 5, 8), currentIsn)
                   /\ IsNext32(SubSeq(Sent[i].payload, 9, 12), SubSeq(Rx.payload, 5, 8))
             /\ ~HasFlag(Sent[1].payload, TCP_FIN)
             /\ HasFlag(Sent[2].payload, TCP_FIN)
             /\ currentIsn' = currentIsn + 1
             /\ tcp_state' = FINWAIT_1]_vars

\* an established connection has been closed by the peer
C23_Witness ==
    /\ tcp_state = FINWAIT_1
    /\ currentIsn = 2
    /\ rxFrame # <<>>
    /\ rxFrame[1].protocol = PROTO_TCP
    /\ rxFrame[1].payload[14] = TCP_FIN + TCP_ACK
    /\ Len(txLog) = 2

\* C25: every dispatched TCP segment with PSH and ACK set, SYN clear and
\* acknowledgement number = currentIsn is answered, in whatever tcp_state it
\* arrives, by exactly one data segment that carries the 5 octets "Hello" and
\* the sequence number currentIsn had; currentIsn increases by 5.
C25_TelnetDataAnswered ==
    [][TcpDispatched /\ AcksCurrentIsn /\ HasFlag(Rx.payload, TCP_PSH)
          => /\ Len(Sent) = 1
             /\ Sent[1].kind = "tcp"
             /\ Len(Sent[1].payload) = 25
             /\ SubSeq(Sent[1].payload, 21, 25) = <<72, 101, 108, 108, 111>>
             /\ IsNumber32(SubSeq(Sent[1].payload, 5, 8), currentIsn)
             /\ currentIsn' = currentIsn + 5]_vars

\* C28: in an options field built by putOption calls from cursor 0 on, whose
\* size is passed as the scan size (a uint8_t: the field has at most 255
\* octets), getOption for a number that was written returns the first value
\* octet of the first option with that number, getOption for a number that
\* was not written returns null, and each putOption call has returned its
\* cursor + 2 + count.
C28_OptionsRoundTrip ==
    ~wrapped =>
        /\ \A k \in DOMAIN written :
              written[k].returned = written[k].cursor + 2 + written[k].count
        /\ \A number \in 0..255 :
              LET calls == {k \in DOMAIN written : written[k].number = number}
                  first == CHOOSE k \in calls : \A j \in calls : k <= j
              IN  IF calls = {}
                  THEN getOption(options, number, opSize) = NULL
                  ELSE /\ getOption(options, number, opSize) = written[first].cursor + 2
                       /\ written[first].count > 0
                             => options[written[first].cursor + 2] = written[first].value

\* the lease time was put twice, after an option whose values are the number
\* of the lease time option
C28_Witness ==
    /\ ~wrapped
    /\ Len(written) = 3
    /\ written[1].number = 53 /\ written[1].count = 4 /\ written[1].value = 51
    /\ written[2].number = 51 /\ written[2].count = 4
    /\ written[3].number = 51

\* ------------------------------------------------------------------------
\* DHCP messages, TCP states and buffers
\* ------------------------------------------------------------------------
\* the frame dispatched in this step is a DHCP message in a broadcast UDP datagram
DhcpDispatched ==
    Block("packet") /\ rxFrame' # <<>> /\ Rx.frameType = ETHERTYPE_IP
        /\ IsBroadcastUdp(Rx)

\* C31: isDhcpOffer and isDhcpAck accept a dispatched message only when all
\* six octets of its chaddr equal the MAC address of the node: an OFFER is
\* answered in SELECTING, and an ACK arms the lease timers, only then.
C31_ChaddrMatchesMac ==
    [][(DhcpDispatched
        /\ \/ isDhcpOffer(Rx) /\ state = SELECTING /\ state' = REQUESTING
           \/ isDhcpAck(Rx) > 0 /\ ackLease' > 0)
            => Rx.chaddr = macAddress]_vars

\* the value of option number in the options field octs, read option by
\* option from octet i on up to the end option; <<>> if it is not there
RECURSIVE TlvValueFrom(_, _, _)
TlvValueFrom(octs, number, i) ==
    IF i + 1 > Len(octs) \/ octs[i] = 255 THEN <<>>
    ELSE IF octs[i] = number THEN SubSeq(octs, i + 2, i + 1 + octs[i + 1])
    ELSE TlvValueFrom(octs, number, i + 2 + octs[i + 1])
TlvValue(octs, number) == TlvValueFrom(octs, number, 1)

\* C32: the REQUEST sent for an OFFER accepted in SELECTING whose options
\* field (UDP length - 248 octets) holds options 51 and 54 carries option 50
\* with the yiaddr of the OFFER, options 51 and 54 with the values of the
\* OFFER, and ends with the end option.
C32_RequestEchoesOffer ==
    [][(DhcpDispatched /\ state = SELECTING /\ state' = REQUESTING
        /\ Len(Rx.dhcpOptions) = Rx.udpLength - 248
        /\ TlvValue(Rx.dhcpOptions, 51) # <<>>
        /\ TlvValue(Rx.dhcpOptions, 54) # <<>>)
            => /\ Emitted /\ IsDhcpTx(LastTx, 3)
               /\ TlvValue(LastTx.options, 50) = Rx.yiaddr
               /\ TlvValue(LastTx.options, 51) = TlvValue(Rx.dhcpOptions, 51)
               /\ TlvValue(LastTx.options, 54) = TlvValue(Rx.dhcpOptions, 54)
               /\ LastTx.options[Len(LastTx.options)] = 255]_vars

\* C33: in every reachable state, with ticks taken between any two blocks of
\* a pass, the DHCP state is STATIC exactly when DHCP mode is disabled.
C33_StaticIffDhcpDisabled == (state = STATIC) <=> ~dhcpEnabled

\* the edges of the DHCP state machine
DhcpEdges ==
    {<<STATIC, INIT>>, <<INIT, SELECTING>>, <<SELECTING, REQUESTING>>,
     <<REQUESTING, BOUND>>, <<BOUND, RENEWING>>, <<RENEWING, REBINDING>>,
     <<RENEWING, BOUND>>, <<REBINDING, BOUND>>, <<REBINDING, INIT>>,
     <<REQUESTING, INIT>>}
        \cup {<<s, STATIC>> : s \in STATIC..REBINDING}

\* C34: every change of the DHCP state follows an edge of the state machine.
C34_StateChangesAlongEdges ==
    [][state' # state => <<state, state'>> \in DhcpEdges]_vars

\* C35: whenever the DHCP state is BOUND, the T1 one-shot of the lease is
\* armed or has raised its flag, so that RENEWING follows under fair ticks.
C35_BoundHasT1Pending ==
    state = BOUND => (Armed(timers, "startT1Timer") \/ renewLease)

\* C36: outside a reset, the learned server MAC and server IP change only in
\* a step that dispatches a DHCP ACK addressed to the node.
C36_ServerLearnedFromAckOnly ==
    [][(pc' # "boot"
        /\ (serverMacAddress' # serverMacAddress
                \/ serverIpAddress' # serverIpAddress))
            => (DhcpDispatched /\ Rx.op = 2 /\ Rx.msgType = 5
                /\ Rx.chaddr = macAddress)]_vars

\* C37: tcp_state is always one of LISTEN, SYN_RECEIVED, ESTABLISHED and
\* FINWAIT_1; CLOSED, FINWAIT_2 and TIME_WAIT are never reached.
C37_TcpStates == tcp_state \in {LISTEN, SYN_RECEIVED, ESTABLISHED, FINWAIT_1}

\* an ACK has been dispatched (the condition of the second and of the last
\* branch) and the connection is ESTABLISHED; and a FIN|ACK has been
\* answered
C37_Witness ==
    /\ pc = "cmd" /\ rxFrame # <<>> /\ rxFrame[1].ipHeader # <<>>
    /\ rxFrame[1].protocol = PROTO_TCP
    /\ HasFlag(rxFrame[1].payload, TCP_ACK)
    /\ ~HasFlag(rxFrame[1].payload, TCP_FIN)
    /\ tcp_state = ESTABLISHED

\* MAMXFL: the longest frame the controller accepts and sends
MaxFrameLength == 1518

\* C38: every frame handed to etherPutPacket in reply to a received frame
\* has a size of at most 1518 octets.
C38_ReplySizeBounded ==
    \A i \in DOMAIN txLog :
        txLog[i].kind \in {"arp", "icmp", "udp", "tcp"}
            => txLog[i].size <= MaxFrameLength

\* C39: in every round of the loop of getOption that does not return, the
\* cursor ends behind the position it had before the round: it neither stays
\* nor wraps back.
C39_CursorAdvances ==
    (scan.pc = "while" /\ scan.before # NULL) => scan.i > scan.before

\* C40: getsUart0 stores no character at an index above MAX_CHARS, and when
\* it has returned charCount is at most MAX_CHARS.
C40_LineWithinBuffer ==
    /\ uartLine.top <= MAX_CHARS
    /\ uartLine.pc = "returned" => uartLine.charCount <= MAX_CHARS

====
